---- MODULE Spec2Model ----
(***************************************************************************)
(* Pricing-gated asset pipeline of the Revoa importer.                     *)
(*                                                                         *)
(* Three state machines share this module:                                 *)
(*   SpecRule    - the pricing rule enforce_rule as a pure function        *)
(*   SpecResolve - the supplier resolvers fetch_aliexpress_total_best and  *)
(*                 search_aliexpress_and_pick_best, one candidate per step *)
(*   SpecMain    - the main pricing loop of scripts/revoa_import.py with   *)
(*                 its __main__ wrapper, and main of revoa_hybrid.py       *)
(* Money is an integer number of cents; Python's None is the value None.   *)
(***************************************************************************)
EXTENDS Integers, Sequences, FiniteSets, TLC

VARIABLES
    \* ---- enforce_rule (SpecRule)
    r_in,        \* the arguments [ae_total, amz_total, min_spread, soft_pass]
    r_out,       \* the returned (passed, reason, soft_flag), or Pending
    \* ---- supplier resolvers (SpecResolve)
    s_fn,        \* which resolver runs: "best" | "search" | "idle"
    s_pages,     \* url -> what fetch_html + the parser give for that url
    s_list,      \* candidate_urls, or the candidate_pool of (href, est_sales)
    s_perm,      \* the same candidates in another order
    s_min_sales, \* min_sales
    s_top_n,     \* top_n
    s_i,         \* index of the next candidate of the loop (1-based)
    s_results,   \* results (fetch_aliexpress_total_best) so far
    s_best,      \* best (search_aliexpress_and_pick_best) so far, or NoBest
    s_checked,   \* checked counter of search_aliexpress_and_pick_best
    s_visited,   \* indexes of s_list whose page has been fetched
    s_pc,        \* "loop" | "returned" | "raised" | "idle"
    s_ret,       \* the returned (best_total, best_url)
    s_ret_perm,  \* what the same call returns on s_perm
    \* ---- the importers (SpecMain)
    m_prog,      \* "import" (scripts/revoa_import.py) | "hybrid" (revoa_hybrid.py) | "idle"
    m_pc,        \* where the program is
    m_target,    \* target = TARGET_NEW_PRODUCTS
    m_n,         \* len(specs)
    m_idx,       \* position of rec in specs (1-based); a candidate's id
    m_found,     \* found
    m_payload,   \* payload
    m_skipped,   \* skipped
    m_failed,    \* failed
    m_cur,       \* the pricing of the candidate in hand
    m_decided,   \* id -> "none" | "pass" | "soft" | "fail"
    m_uploads,   \* id -> number of storage upload calls issued for it
    m_files,     \* files of assets_dir (or of the hybrid importer) still to upload
    m_assets,    \* assets: numbers of image and gif urls collected, and of those not stored
    m_wins,      \* windows of auto_build_gifs still to encode
    m_gif,       \* the artifact encode_gif_budgeted handed back
    m_raised_at, \* the step whose exception left main, or "none"
    m_ret,       \* what main returned, or NoSummary
    m_summary,   \* the run summary written by __main__, or NoSummary
    m_over,      \* the run has lasted more than MAX_RUNTIME_MIN minutes
    m_started,   \* number of candidates whose processing has begun
    m_min_spread, \* MIN_SPREAD_USD of the run, as read from the environment
    m_accepted,  \* products the catalog has accepted in this run
    m_resp,      \* what the catalog upsert call of import_products came to, or None
    m_td,        \* the TemporaryDirectory of auto_build_gifs: "none" | "exists" | "removed"
    \* ---- fetch_amazon_price_prime_only over fetch_html_with_retry (SpecScrape)
    f_max_retries, \* max_retries
    f_base_sleep,  \* base_sleep, in seconds
    f_page,        \* what the url serves with a status 200
    f_attempt,     \* attempt of the for loop
    f_requests,    \* requests.get calls issued so far
    f_last,        \* outcome of the latest requests.get, or NoResponse
    f_slept,       \* the time.sleep that followed it, or None
    f_html,        \* what fetch_html returned: "none" | "empty" | "page" | "pending"
    f_pc,          \* "loop" | "fetched" | "raised" | "done" | "idle"
    f_ret,         \* what fetch_amazon_price_prime_only returned, or NotYet
    \* ---- find_clean_windows (SpecWindows)
    w_times,     \* times of the sampled frames, in tenths of a second
    w_scores,    \* their scores, in hundredths
    w_cands,     \* candidates, sorted, as (clean_ratio, a, b); times in tenths of a second
    w_wanted,    \* wanted
    w_i,         \* index of the next candidate of the selection loop
    w_selected,  \* selected
    w_pc,        \* "select" | "returned" | "idle"
    w_ret,       \* the returned wins
    \* ---- encode_gif_budgeted (SpecEncode)
    e_fps_target, \* fps_target
    e_w,          \* position in targets of the width in hand (1-based)
    e_f,          \* position in fps_vals of the frame rate in hand (1-based)
    e_tried,      \* the palette_gif calls so far, as (w, fps, mb); mb None: not ok
    e_pc,         \* "search" | "returned" | "idle"
    e_ret         \* what was returned: (path, w, fps, mb); path is a position in e_tried

rule_vars == <<r_in, r_out>>
res_vars  == <<s_fn, s_pages, s_list, s_perm, s_min_sales, s_top_n, s_i,
               s_results, s_best, s_checked, s_visited, s_pc, s_ret, s_ret_perm>>
main_vars == <<m_prog, m_pc, m_target, m_n, m_idx, m_found, m_payload, m_skipped,
               m_failed, m_cur, m_decided, m_uploads, m_files, m_assets, m_wins,
               m_gif, m_raised_at, m_ret, m_summary, m_over, m_started, m_td, m_resp, m_min_spread,
               m_accepted>>
scrape_vars == <<f_max_retries, f_base_sleep, f_page, f_attempt, f_requests, f_last,
                 f_slept, f_html, f_pc, f_ret>>
win_vars == <<w_times, w_scores, w_cands, w_wanted, w_i, w_selected, w_pc, w_ret>>
enc_vars == <<e_fps_target, e_w, e_f, e_tried, e_pc, e_ret>>
vars == <<rule_vars, res_vars, main_vars, scrape_vars, win_vars, enc_vars>>

\* Python's None, kept apart from every amount, count and url (all >= 0).
None == 0 - 1

\* One dollar, in cents.
Dollar == 10 * 10

----------------------------------------------------------------------------
(* Bounds of the model *)

\* Largest supplier / retail total drawn for enforce_rule, in dollars.
MaxDollars == 42

\* Longest candidate list handed to a supplier resolver.
MaxCands == 2

\* Largest item price on a supplier page, in dollars.
MaxPrice == 2

\* Largest TARGET_NEW_PRODUCTS of a run, hence the longest specs list.
MaxTarget == 2

\* Largest retail total of a run of an importer, in tens of dollars.
MaxTens == 5

\* Most files found in a candidate's assets_dir.
MaxFiles == 1

\* Most windows auto_build_gifs encodes for one candidate.
MaxWins == 2
MaxHits == 2
MaxAnchors == 3
MaxWidths == 2
MaxFpsSpan == 4

\* Most sampled frames of a reel that score at the threshold.
MaxDirty == 2

----------------------------------------------------------------------------
(* enforce_rule *)

\* Default of the min_spread parameter, in dollars.
DefaultMinSpread == 20

\* The reason strings.  The two f-strings carry their branch word and the
\* three formatted numbers; the fixed strings carry none.
ReasonText(branch) == [branch |-> branch, ae |-> None, amz |-> None, spread |-> 0]
ReasonNums(branch, ae_total, amz_total, spread) ==
    [branch |-> branch, ae |-> ae_total, amz |-> amz_total, spread |-> spread]

half_rule_halved(ae_total, amz_total) == ae_total * 2 < amz_total
half_rule(ae_total, amz_total) == ae_total * 2 <= amz_total

spread_rule_strict(spread, min_spread) == spread > min_spread
spread_rule(spread, min_spread) == spread >= min_spread

soft_branch_ignores_amz(soft_pass, amz_total) == soft_pass
soft_branch_ignores_flag(soft_pass, amz_total) == amz_total # None
soft_branch(soft_pass, amz_total) == soft_pass /\ amz_total # None

enforce_rule(ae_total, amz_total, min_spread, soft_pass) ==
    IF ae_total = None
    THEN IF soft_branch(soft_pass, amz_total)
         THEN [passed |-> TRUE, reason |-> ReasonText("SOFT-PASS"), soft_flag |-> TRUE]
         ELSE [passed |-> FALSE, reason |-> ReasonText("AE-NOT-FOUND"), soft_flag |-> FALSE]
    ELSE IF amz_total = None
    THEN [passed |-> FALSE, reason |-> ReasonText("AMZ-NOT-FOUND"), soft_flag |-> FALSE]
    ELSE LET spread == amz_total - ae_total IN
         IF half_rule(ae_total, amz_total) \/ spread_rule(spread, min_spread)
         THEN [passed |-> TRUE,
               reason |-> ReasonNums("PASS", ae_total, amz_total, spread),
               soft_flag |-> FALSE]
         ELSE [passed |-> FALSE,
               reason |-> ReasonNums("FAIL", ae_total, amz_total, spread),
               soft_flag |-> FALSE]

Pending == [passed |-> FALSE, reason |-> ReasonText("pending"), soft_flag |-> FALSE]

Totals == {None} \cup {Dollar * k : k \in 0..MaxDollars}
MinSpreads == {Dollar * k : k \in {0, DefaultMinSpread - 1, DefaultMinSpread, DefaultMinSpread + 1}}

RuleIdle == r_in = [ae_total |-> None, amz_total |-> None, min_spread |-> 0, soft_pass |-> FALSE]
            /\ r_out = Pending

RuleInit ==
    /\ r_in \in [ae_total : Totals, amz_total : Totals,
                 min_spread : MinSpreads, soft_pass : BOOLEAN]
    /\ r_out = Pending

\* One call of enforce_rule on the drawn arguments.
Decide ==
    /\ r_out = Pending
    /\ r_out' = enforce_rule(r_in.ae_total, r_in.amz_total, r_in.min_spread, r_in.soft_pass)
    /\ UNCHANGED r_in

RuleCalled == r_out # Pending

\* The arithmetic rule as the pricing contract states it.
ArithmeticRule(ae, amz, min_spread) == ae * 2 <= amz \/ amz - ae >= min_spread

\* C1: with both totals known, enforce_rule passes exactly when the supplier
\* total is at most half the retail total or the spread reaches min_spread,
\* and the soft flag is off whether it passes or fails, whatever soft_pass is.
C1_RuleIffArithmetic ==
    (RuleCalled /\ r_in.ae_total # None /\ r_in.amz_total # None) =>
        /\ r_out.passed <=> ArithmeticRule(r_in.ae_total, r_in.amz_total, r_in.min_spread)
        /\ r_out.soft_flag = FALSE

\* retail $40, supplier $21, min_spread $20: neither condition holds.
C1_Witness ==
    /\ RuleCalled
    /\ r_in.amz_total = 40 * Dollar /\ r_in.ae_total = 21 * Dollar
    /\ r_in.min_spread = 20 * Dollar /\ r_in.soft_pass
    /\ ~r_out.passed

\* C4: the soft flag is set exactly when the supplier total is unknown, the
\* retail total is known and soft_pass is on, and then the call passes; an
\* unknown supplier total without soft_pass fails; so a pass is either the
\* arithmetic rule over two known totals or the soft flag.
C4_SoftFlagExactly ==
    RuleCalled =>
        /\ r_out.soft_flag <=>
               (r_in.ae_total = None /\ r_in.amz_total # None /\ r_in.soft_pass)
        /\ r_out.soft_flag => r_out.passed
        /\ (r_in.ae_total = None /\ ~r_in.soft_pass) => ~r_out.passed
        /\ r_out.passed =>
               \/ /\ r_in.ae_total # None /\ r_in.amz_total # None
                  /\ ArithmeticRule(r_in.ae_total, r_in.amz_total, r_in.min_spread)
               \/ r_out.soft_flag

\* enforce_rule(None, $30, soft_pass=True) passes with the soft flag.
C4_Witness ==
    /\ RuleCalled
    /\ r_in.ae_total = None /\ r_in.amz_total = 30 * Dollar /\ r_in.soft_pass
    /\ r_out.passed /\ r_out.soft_flag

\* C5: an unknown retail total always fails, with the soft flag off, for
\* every supplier total (known or not), every min_spread and both soft_pass.
C5_NoRetailAlwaysFails ==
    (RuleCalled /\ r_in.amz_total = None) => (~r_out.passed /\ ~r_out.soft_flag)

\* the case soft-pass could be thought to rescue: both unknown, soft_pass on.
C5_Witness ==
    /\ RuleCalled
    /\ r_in.amz_total = None /\ r_in.ae_total = None /\ r_in.soft_pass
    /\ ~r_out.passed

\* The branch of enforce_rule a call went through, read off its arguments and
\* the flags it returned.
BranchFired(in, out) ==
    IF out.soft_flag THEN "soft-pass"
    ELSE IF in.ae_total = None THEN "supplier-unknown"
    ELSE IF in.amz_total = None THEN "retail-unknown"
    ELSE IF out.passed THEN "pass" ELSE "rule-fail"

\* C21 as claimed: the reason string tells the branch that fired and the
\* known totals: any other call of enforce_rule that returns the same reason
\* went through the same branch and had the same supplier and retail totals.
C21_ReasonEncodesCall ==
    RuleCalled =>
        \A ae2 \in Totals, amz2 \in Totals, soft2 \in BOOLEAN :
            LET in2 == [ae_total |-> ae2, amz_total |-> amz2,
                        min_spread |-> r_in.min_spread, soft_pass |-> soft2]
                out2 == enforce_rule(ae2, amz2, r_in.min_spread, soft2)
            IN  out2.reason = r_out.reason =>
                    /\ BranchFired(in2, out2) = BranchFired(r_in, r_out)
                    /\ ae2 = r_in.ae_total
                    /\ amz2 = r_in.amz_total

----------------------------------------------------------------------------
(* Supplier pages: what fetch_html and parse_aliexpress_price_shipping_sales *)
(* get from one url                                                          *)

MIN_SALES_DEFAULT == 100
TOP_N_DEFAULT == 3

\* The sales regex captured only commas: int("") raises ValueError.
BadInt == 0 - 2

\* fetch_html returned None (every attempt failed).
FetchFailed == [html |-> FALSE, price |-> None, ship |-> 0, sales |-> None]
\* A page without a price and without a sales figure.
NoPricePage == [html |-> TRUE, price |-> None, ship |-> 0, sales |-> None]
\* A page such as "No orders, sorry": no price, and the sales pattern
\* orders?[^0-9]*([0-9,]+) captures ",".
BadSalesPage == [html |-> TRUE, price |-> None, ship |-> 0, sales |-> BadInt]

SalesChoices(m) == {None} \cup ({m - 1, m, m + 1} \cap Nat)

\* ship is 0 when no shipping figure is on the page (the parser's 0.0).
PageKinds(m) ==
    {FetchFailed, NoPricePage, BadSalesPage} \cup
    [html : {TRUE}, price : {Dollar * p : p \in 1..MaxPrice},
     ship : {0, Dollar}, sales : SalesChoices(m)]

\* parse_aliexpress_price_shipping_sales(fetch_html(u)): (price, ship, sales),
\* or the ValueError of int("").
parse_aliexpress_price_shipping_sales(page) ==
    IF ~page.html THEN [raised |-> FALSE, price |-> None, ship |-> None, sales |-> None]
    ELSE IF page.sales = BadInt
    THEN [raised |-> TRUE, price |-> None, ship |-> None, sales |-> None]
    ELSE [raised |-> FALSE, price |-> page.price, ship |-> page.ship, sales |-> page.sales]

\* Python's  x or 0
OrZero(x) == IF x = None THEN 0 ELSE x

----------------------------------------------------------------------------
(* fetch_aliexpress_total_best *)

Min2(a, b) == IF a <= b THEN a ELSE b

\* candidate_urls[:top_n]
SliceLen(candidate_urls, top_n) == Min2(Len(candidate_urls), top_n)

below_min_sales_never(sales, min_sales) == FALSE
below_min_sales(sales, min_sales) == OrZero(sales) < min_sales

\* key=lambda x: (x[0], -x[2]) compared as Python compares tuples
KeyLess_total_only(a, b) == a.total < b.total
KeyLess_low_sales_first(a, b) ==
    \/ a.total < b.total
    \/ a.total = b.total /\ a.sales < b.sales
KeyLess_max_total(a, b) ==
    \/ a.total > b.total
    \/ a.total = b.total /\ (0 - a.sales) < (0 - b.sales)
KeyLess(a, b) ==
    \/ a.total < b.total
    \/ a.total = b.total /\ (0 - a.sales) < (0 - b.sales)

\* list.sort is stable: x goes after every element that is not greater.
RECURSIVE InsertSorted(_, _)
InsertSorted(sorted, x) ==
    IF sorted = <<>> THEN <<x>>
    ELSE IF KeyLess(x, Head(sorted)) THEN <<x>> \o sorted
    ELSE <<Head(sorted)>> \o InsertSorted(Tail(sorted), x)

RECURSIVE SortResults(_)
SortResults(results) ==
    IF results = <<>> THEN <<>>
    ELSE InsertSorted(SortResults(SubSeq(results, 1, Len(results) - 1)),
                      results[Len(results)])

\* One pass of the for loop over one url: the new results, or the exception.
BestBody(results, u, page, min_sales) ==
    LET p == parse_aliexpress_price_shipping_sales(page) IN
    IF p.raised THEN [raised |-> TRUE, results |-> results]
    ELSE IF p.price = None THEN [raised |-> FALSE, results |-> results]
    ELSE IF below_min_sales(p.sales, min_sales) THEN [raised |-> FALSE, results |-> results]
    ELSE [raised |-> FALSE,
          results |-> Append(results, [total |-> p.price + OrZero(p.ship),
                                       url |-> u, sales |-> OrZero(p.sales)])]

\* The lines after the loop.
BestReturnValue(results) ==
    IF results = <<>> THEN <<None, None>>
    ELSE LET best == Head(SortResults(results)) IN <<best.total, best.url>>

\* The value a raising call stands for where two calls are compared.
Raised == <<BadInt, BadInt>>

\* The whole call, candidate i onwards.
RECURSIVE BestFrom(_, _, _, _, _, _)
BestFrom(i, results, candidate_urls, pages, min_sales, top_n) ==
    IF i > SliceLen(candidate_urls, top_n) THEN BestReturnValue(results)
    ELSE LET u == candidate_urls[i].url
             b == BestBody(results, u, pages[u], min_sales) IN
         IF b.raised THEN Raised
         ELSE BestFrom(i + 1, b.results, candidate_urls, pages, min_sales, top_n)

fetch_aliexpress_total_best(candidate_urls, pages, min_sales, top_n) ==
    BestFrom(1, <<>>, candidate_urls, pages, min_sales, top_n)

----------------------------------------------------------------------------
(* search_aliexpress_and_pick_best: the verification loop over the pool *)

\* "Limit to 8 page fetches max"
MaxPageFetches == 8

NoBest == [total |-> None, url |-> None, sales |-> None]

better_total_or_equal(total, best) == best = NoBest \/ total <= best.total
better_total(total, best) == best = NoBest \/ total < best.total

sales_final_ignores_estimate(sales, est_sales) == OrZero(sales)
sales_final_of(sales, est_sales) == IF sales # None THEN sales ELSE est_sales

\* One pass of the for loop over one (href, est_sales): the new best, or the
\* exception.
SearchBody(best, cand, page, min_sales) ==
    LET p == parse_aliexpress_price_shipping_sales(page) IN
    IF p.raised THEN [raised |-> TRUE, best |-> best]
    ELSE LET sales_final == sales_final_of(p.sales, cand.est) IN
         IF sales_final < min_sales \/ p.price = None
         THEN [raised |-> FALSE, best |-> best]
         ELSE LET total == p.price + OrZero(p.ship) IN
              IF better_total(total, best)
              THEN [raised |-> FALSE,
                    best |-> [total |-> total, url |-> cand.url, sales |-> sales_final]]
              ELSE [raised |-> FALSE, best |-> best]

SearchReturnValue(best) ==
    IF best = NoBest THEN <<None, None>> ELSE <<best.total, best.url>>

----------------------------------------------------------------------------
(* The resolvers as state machines: one candidate per step *)

MinSalesChoices == {0, MIN_SALES_DEFAULT}
TopNChoices == {1, TOP_N_DEFAULT}

Max2(a, b) == IF a >= b THEN a ELSE b

\* search_once keeps an item only if "sales and sales >= min_sales".
EstChoices(m, page) ==
    IF page.html /\ page.price # None /\ page.sales = None
    THEN {Max2(m, 1), Max2(m, 1) + 1}
    ELSE {Max2(m, 1)}

Orders(n) == {f \in [1..n -> 1..n] : \A i, j \in 1..n : i # j => f[i] # f[j]}

ResolveIdle ==
    /\ s_fn = "idle" /\ s_pages = <<>> /\ s_list = <<>> /\ s_perm = <<>>
    /\ s_min_sales = 0 /\ s_top_n = 0 /\ s_i = 1 /\ s_results = <<>>
    /\ s_best = NoBest /\ s_checked = 0 /\ s_visited = {} /\ s_pc = "idle"
    /\ s_ret = <<None, None>> /\ s_ret_perm = <<None, None>>

ResolveInit ==
    \E fn \in {"best", "search"}, m \in MinSalesChoices, n \in 0..MaxCands :
    \E pages \in [1..n -> PageKinds(m)] :
    \E ests \in [1..n -> {Max2(m, 1), Max2(m, 1) + 1}] :
        /\ \A i \in 1..n : ests[i] \in
               (IF fn = "search" THEN EstChoices(m, pages[i]) ELSE {Max2(m, 1)})
        /\ s_fn = fn
        /\ s_pages = pages
        /\ s_list = [i \in 1..n |-> [url |-> i, est |-> IF fn = "search" THEN ests[i] ELSE None]]
        /\ s_perm = <<>>
        /\ s_min_sales = m
        /\ s_top_n \in (IF fn = "best" THEN TopNChoices ELSE {0})
        /\ s_i = 1 /\ s_results = <<>> /\ s_best = NoBest /\ s_checked = 0
        /\ s_visited = {} /\ s_pc = "loop"
        /\ s_ret = <<None, None>> /\ s_ret_perm = <<None, None>>

\* for u in candidate_urls[:top_n]: one iteration
BestIter ==
    /\ s_fn = "best" /\ s_pc = "loop"
    /\ s_i <= SliceLen(s_list, s_top_n)
    /\ LET u == s_list[s_i].url
           b == BestBody(s_results, u, s_pages[u], s_min_sales) IN
       /\ s_visited' = s_visited \cup {s_i}
       /\ IF b.raised
          THEN /\ s_pc' = "raised"
               /\ UNCHANGED <<s_i, s_results>>
          ELSE /\ s_results' = b.results
               /\ s_i' = s_i + 1
               /\ s_pc' = "loop"
    /\ UNCHANGED <<s_fn, s_pages, s_list, s_perm, s_min_sales, s_top_n, s_best,
                   s_checked, s_ret, s_ret_perm>>

\* The loop is over: sort and return.  The same call on the same candidates
\* in another order is evaluated beside it.
BestReturn ==
    /\ s_fn = "best" /\ s_pc = "loop"
    /\ s_i > SliceLen(s_list, s_top_n)
    /\ s_ret' = BestReturnValue(s_results)
    /\ \E f \in Orders(Len(s_list)) :
          /\ s_perm' = [i \in 1..Len(s_list) |-> s_list[f[i]]]
          /\ s_ret_perm' = fetch_aliexpress_total_best(s_perm', s_pages, s_min_sales, s_top_n)
    /\ s_pc' = "returned"
    /\ UNCHANGED <<s_fn, s_pages, s_list, s_min_sales, s_top_n, s_i, s_results,
                   s_best, s_checked, s_visited>>

\* for href, est_sales in candidate_pool: one iteration
SearchIter ==
    /\ s_fn = "search" /\ s_pc = "loop"
    /\ s_list # <<>>
    /\ s_i <= Len(s_list)
    /\ s_checked < MaxPageFetches
    /\ LET cand == s_list[s_i]
           b == SearchBody(s_best, cand, s_pages[cand.url], s_min_sales) IN
       /\ s_checked' = s_checked + 1
       /\ s_visited' = s_visited \cup {s_i}
       /\ IF b.raised
          THEN /\ s_pc' = "raised"
               /\ UNCHANGED <<s_i, s_best>>
          ELSE /\ s_best' = b.best
               /\ s_i' = s_i + 1
               /\ s_pc' = "loop"
    /\ UNCHANGED <<s_fn, s_pages, s_list, s_perm, s_min_sales, s_top_n, s_results,
                   s_ret, s_ret_perm>>

\* An empty pool, the pool exhausted, or the fetch limit reached: return.
SearchReturn ==
    /\ s_fn = "search" /\ s_pc = "loop"
    /\ s_list = <<>> \/ s_i > Len(s_list) \/ s_checked >= MaxPageFetches
    /\ s_ret' = SearchReturnValue(s_best)
    /\ s_pc' = "returned"
    /\ UNCHANGED <<s_fn, s_pages, s_list, s_perm, s_min_sales, s_top_n, s_i,
                   s_results, s_best, s_checked, s_visited, s_ret_perm>>

----------------------------------------------------------------------------
(* Properties of the supplier resolvers *)

PageOf(i) == s_pages[s_list[i].url]
PageTotal(page) == page.price + page.ship
HasPrice(page) == page.html /\ page.sales # BadInt /\ page.price # None

\* The candidates fetch_aliexpress_total_best evaluates that have a parsed
\* price and enough sales, a page without a sales figure counting as 0 sales.
BestEligible ==
    {i \in 1..SliceLen(s_list, s_top_n) :
        HasPrice(PageOf(i)) /\ OrZero(PageOf(i).sales) >= s_min_sales}

BestReturned == s_fn = "best" /\ s_pc = "returned"
SearchReturned == s_fn = "search" /\ s_pc = "returned"

\* C7: fetch_aliexpress_total_best returns the candidate of minimum total
\* (item price + shipping) among the evaluated candidates with a parsed price
\* and sales >= min_sales, the one with the highest sales among those of
\* minimum total, and (None, None) when there is no such candidate.
C7_MinTotalThenMaxSales ==
    BestReturned =>
        IF BestEligible = {} THEN s_ret = <<None, None>>
        ELSE \E i \in BestEligible :
                /\ s_ret = <<PageTotal(PageOf(i)), s_list[i].url>>
                /\ \A j \in BestEligible :
                      /\ PageTotal(PageOf(j)) >= PageTotal(PageOf(i))
                      /\ PageTotal(PageOf(j)) = PageTotal(PageOf(i))
                            => OrZero(PageOf(j).sales) <= OrZero(PageOf(i).sales)

\* Two eligible candidates share the minimum total, shipping included, and
\* the later one has more sales: it is the one returned.
C7_Witness ==
    /\ BestReturned
    /\ BestEligible = {1, 2}
    /\ PageOf(1).ship # PageOf(2).ship
    /\ PageTotal(PageOf(1)) = PageTotal(PageOf(2))
    /\ PageOf(1).sales # None /\ PageOf(2).sales # None
    /\ PageOf(1).sales < PageOf(2).sales
    /\ s_ret = <<PageTotal(PageOf(2)), s_list[2].url>>

\* C8 as claimed: the same candidates in any other order give the same
\* (best_total, best_url), wherever both calls return.
C8_OrderIndependent == (BestReturned /\ s_ret_perm # Raised) => s_ret_perm = s_ret

\* C9 as claimed: a candidate without a sales figure is excluded like one
\* below min_sales, so the candidate returned has a sales figure >= min_sales.
C9_NoFigureExcluded ==
    /\ (BestReturned /\ s_ret # <<None, None>>) =>
           \E i \in 1..Len(s_list) :
               /\ s_list[i].url = s_ret[2]
               /\ PageOf(i).sales # None /\ PageOf(i).sales >= s_min_sales
    /\ (SearchReturned /\ s_ret # <<None, None>>) => s_best.sales >= s_min_sales

\* C9 amended: neither resolver returns a candidate whose sales signal is
\* below min_sales, however low its total.  For fetch_aliexpress_total_best
\* the signal of a page without a sales figure is 0, so such a candidate is
\* excluded whenever min_sales >= 1; for search_aliexpress_and_pick_best the
\* signal is the page's figure, or the search estimate when the page has none.
C9_NeverBelowMinSales ==
    /\ (BestReturned /\ s_ret # <<None, None>>) =>
           \E i \in 1..Len(s_list) :
               /\ s_list[i].url = s_ret[2]
               /\ OrZero(PageOf(i).sales) >= s_min_sales
               /\ (PageOf(i).sales = None => s_min_sales <= 0)
    /\ (SearchReturned /\ s_ret # <<None, None>>) =>
           \E i \in 1..Len(s_list) :
               /\ s_list[i].url = s_ret[2]
               /\ s_best.sales = (IF PageOf(i).sales # None THEN PageOf(i).sales
                                  ELSE s_list[i].est)
               /\ s_best.sales >= s_min_sales

\* A cheaper candidate was passed over for its sales, min_sales being 100.
C9_Witness ==
    /\ BestReturned /\ s_min_sales = MIN_SALES_DEFAULT
    /\ s_ret # <<None, None>>
    /\ \E i \in 1..SliceLen(s_list, s_top_n) :
          /\ HasPrice(PageOf(i))
          /\ PageOf(i).sales = s_min_sales - 1
          /\ PageTotal(PageOf(i)) < s_ret[1]

\* The candidates the resolver is to evaluate: the first top_n urls, or the
\* pool up to the fetch limit.
ToEvaluate ==
    IF s_fn = "best" THEN 1..SliceLen(s_list, s_top_n)
    ELSE 1..Min2(Len(s_list), MaxPageFetches)

\* C10 as claimed: a fetch or parse failure of one candidate only skips it,
\* the remaining candidates are evaluated, and with no usable candidate the
\* resolver returns (None, None); it never raises.
C10_FailureOnlySkips ==
    /\ s_pc # "raised"
    /\ s_pc = "returned" =>
          /\ s_visited = ToEvaluate
          /\ (\A i \in ToEvaluate : ~HasPrice(PageOf(i))) => s_ret = <<None, None>>

\* The candidates of the pool search_aliexpress_and_pick_best verified: a
\* parsed price, and final sales (the page's figure, else the estimate of the
\* search page) of at least min_sales.
FinalSales(i) == IF PageOf(i).sales # None THEN PageOf(i).sales ELSE s_list[i].est
SearchVerified ==
    {i \in 1..Min2(Len(s_list), MaxPageFetches) :
        HasPrice(PageOf(i)) /\ FinalSales(i) >= s_min_sales}

\* C25 as claimed: search_aliexpress_and_pick_best returns the verified
\* candidate of minimum total, the one with the highest sales among those of
\* minimum total, in whatever order the pool was collected.
C25_SearchMinTotalThenMaxSales ==
    SearchReturned =>
        IF SearchVerified = {} THEN s_ret = <<None, None>>
        ELSE \E i \in SearchVerified :
                /\ s_ret = <<PageTotal(PageOf(i)), s_list[i].url>>
                /\ \A j \in SearchVerified :
                      /\ PageTotal(PageOf(j)) >= PageTotal(PageOf(i))
                      /\ PageTotal(PageOf(j)) = PageTotal(PageOf(i))
                            => FinalSales(j) <= FinalSales(i)

----------------------------------------------------------------------------
(* scripts/revoa_import.py: main, from the pricing loop on, and __main__ *)

TenDollars == 10 * Dollar

\* MIN_SPREAD_USD = float(os.environ.get("MIN_SPREAD_USD", "20")): the value
\* without the variable set, and the values a run may be configured with.
MIN_SPREAD_USD == 20
MinSpreadConfigs == {MIN_SPREAD_USD * Dollar, MIN_SPREAD_USD * Dollar + TenDollars}

\* Retail and supplier totals of a run: $20 and the largest against $10 and
\* $20 less, so that a pass by the half rule alone, a pass by the spread
\* alone and a fail all occur.
MainAmz == {None} \cup {TenDollars * k : k \in {2, MaxTens}}
MainAe == {TenDollars * k : k \in {1, MaxTens - 2}}

\* What a supplier resolver can hand to main: the exception, (None, None) or
\* a (best_total, best_url).
ResolverOutcomes == {Raised, <<None, None>>} \cup {<<t, 1>> : t \in MainAe}
\* The rec has no aliexpress_candidates / no aliexpress_search_terms.
Absent == <<None, BadInt>>

Ids == 1..MaxTarget

NoCur == [ae_total |-> None, amz_total |-> None, reason |-> ReasonText("none"),
          soft_flag |-> FALSE, rrp |-> None]
NoSummary == [total |-> None, successful |-> None, failed |-> None, skipped |-> <<>>,
              error_text |-> FALSE]
NoGif == [path |-> FALSE, exists |-> FALSE]

\* urls of a candidate: the image and gif urls, and how many of them come
\* from an upload the storage did not accept.
NoAssets == [images |-> 0, gifs |-> 0, unstored |-> 0]

\* What the storage answers an upload with: 200/201, a status with "already
\* exists" in its detail, or any other status.
UploadAnswers == {"stored", "already exists", "refused"}

\* if r.status_code not in (200, 201): ... if "already exists" not in ...: print
upload_warns(answer) == answer = "refused"

\* return f"{SUPABASE_URL}/storage/v1/object/public/product-assets/{...}"
upload_returns_url(answer) == TRUE

\* urls.append / urls[...].append of what upload returned
AddUrl(assets, kind, answer) ==
    IF ~upload_returns_url(answer) THEN assets
    ELSE LET n == IF upload_warns(answer) THEN 1 ELSE 0 IN
         IF kind = "gif"
         THEN [assets EXCEPT !.gifs = @ + 1, !.unstored = @ + n]
         ELSE IF kind = "image"
         THEN [assets EXCEPT !.images = @ + 1, !.unstored = @ + n]
         ELSE assets

\* if found >= target: break
target_reached(found, target) == found >= target

\* passed, reason, soft_flag = enforce_rule(...): the decision of a candidate
DecisionOf(d) == IF d.soft_flag THEN "soft" ELSE IF d.passed THEN "pass" ELSE "fail"

\* if not passed: ... continue
skip_only_passed(passed) == passed
skip_never(passed) == FALSE
skip_unless_passed(passed) == ~passed

\* rrp of the main loop (lines 1767-1771)
RrpOf(ae_total, supplier_price) ==
    IF ae_total # None THEN ae_total * 3
    ELSE IF supplier_price # None THEN supplier_price * 3 ELSE None

\* encode_gif_budgeted returns a path inside its own TemporaryDirectory, which
\* the with statement removes as the function returns.
gif_exists_after_encode == FALSE

\* rrp = round(ae_total * 3, 2) in build_product: TypeError on None.
build_product_raises(ae_total) == ae_total = None

\* build_product and the overrides of lines 1789-1797.
ProductOf(id, cur, assets) ==
    LET review == cur.soft_flag /\ cur.rrp = None IN
    [external_id |-> id,
     supplier_price |-> IF review THEN 0 ELSE cur.ae_total,
     recommended_retail_price |->
         IF review THEN 0 ELSE IF cur.rrp # None THEN cur.rrp ELSE cur.ae_total * 3,
     price_rule_reason |-> cur.reason,
     admin_review_required |-> review,
     gifs |-> assets.gifs]

MainIdle ==
    /\ m_min_spread = 0
    /\ m_prog = "idle" /\ m_pc = "idle" /\ m_target = 0 /\ m_n = 0 /\ m_idx = 1
    /\ m_found = 0 /\ m_payload = <<>> /\ m_skipped = <<>> /\ m_failed = <<>>
    /\ m_cur = NoCur /\ m_decided = [i \in Ids |-> "none"]
    /\ m_uploads = [i \in Ids |-> 0] /\ m_files = 0
    /\ m_assets = NoAssets /\ m_wins = 0 /\ m_gif = NoGif
    /\ m_raised_at = "none" /\ m_ret = NoSummary /\ m_summary = NoSummary
    /\ m_over = FALSE /\ m_started = 0 /\ m_td = "none" /\ m_resp = None
    /\ m_accepted = 0

\* The state as the pricing loop is entered: STEP 2 stops at target specs.
ImportInitWith(min_spread_usd) ==
    /\ m_min_spread = min_spread_usd
    /\ m_prog = "import" /\ m_pc = "top"
    /\ m_target \in 1..MaxTarget
    /\ m_n \in 1..m_target
    /\ m_idx = 1 /\ m_found = 0
    /\ m_payload = <<>> /\ m_skipped = <<>> /\ m_failed = <<>>
    /\ m_cur = NoCur /\ m_decided = [i \in Ids |-> "none"]
    /\ m_uploads = [i \in Ids |-> 0] /\ m_files = 0
    /\ m_assets = NoAssets /\ m_wins = 0 /\ m_gif = NoGif
    /\ m_raised_at = "none" /\ m_ret = NoSummary /\ m_summary = NoSummary
    /\ m_over = FALSE /\ m_started = 0 /\ m_td = "none" /\ m_resp = None
    /\ m_accepted = 0

ImportInit == ImportInitWith(MIN_SPREAD_USD * Dollar)

loop_vars == <<m_prog, m_target, m_n, m_min_spread>>

NextCandidate ==
    /\ m_idx' = m_idx + 1
    /\ m_pc' = "top"
    /\ m_cur' = NoCur
    /\ m_files' = 0 /\ m_wins' = 0 /\ m_gif' = NoGif /\ m_td' = "none"
    /\ m_assets' = NoAssets

Raise(step) ==
    /\ m_pc' = "raised"
    /\ m_raised_at' = step

\* if (time.time() - start_time) / 60.0 > MAX_RUNTIME_MIN: break
runtime_exceeded(over) == over

AtCandidate ==
    /\ m_prog = "import" /\ m_pc = "top" /\ m_idx <= m_n
    /\ ~target_reached(m_found, m_target)
    /\ ~runtime_exceeded(m_over)
    /\ m_started' = m_started + 1

\* Time passes: from some moment on the runtime budget is exceeded.
M_Tick ==
    /\ m_prog \in {"import", "hmode"}
    /\ m_pc \notin {"returned", "raised", "exited", "pricing", "done"}
    /\ ~m_over
    /\ m_over' = TRUE
    /\ UNCHANGED <<loop_vars, m_resp, m_accepted, m_pc, m_started, m_td, m_idx, m_found, m_payload,
                   m_skipped, m_failed,
                   m_cur, m_decided, m_uploads, m_files, m_assets, m_wins, m_gif,
                   m_raised_at, m_ret, m_summary>>

\* for rec in specs: exhausted
M_LoopEnd ==
    /\ m_prog = "import" /\ m_pc = "top" /\ m_idx > m_n
    /\ m_pc' = "import"
    /\ UNCHANGED <<loop_vars, m_resp, m_accepted, m_over, m_started, m_td, m_idx, m_found, m_payload,
                   m_skipped, m_failed, m_cur,
                   m_decided, m_uploads, m_files, m_assets, m_wins, m_gif,
                   m_raised_at, m_ret, m_summary>>

\* The two budget checks at the top of the loop body: break.
M_BudgetBreak ==
    /\ m_prog = "import" /\ m_pc = "top" /\ m_idx <= m_n
    /\ target_reached(m_found, m_target) \/ runtime_exceeded(m_over)
    /\ m_pc' = "import"
    /\ UNCHANGED <<loop_vars, m_resp, m_accepted, m_over, m_started, m_td, m_idx, m_found, m_payload,
                   m_skipped, m_failed, m_cur,
                   m_decided, m_uploads, m_files, m_assets, m_wins, m_gif,
                   m_raised_at, m_ret, m_summary>>

\* if ext_id in seen_extids: continue
M_SkipSeen ==
    /\ AtCandidate
    /\ NextCandidate
    /\ UNCHANGED <<loop_vars, m_resp, m_accepted, m_over, m_found, m_payload, m_skipped, m_failed, m_decided,
                   m_uploads, m_raised_at, m_ret, m_summary>>

\* if not amz_url: skipped, continue
M_SkipNoUrl ==
    /\ AtCandidate
    /\ m_skipped' = Append(m_skipped, [external_id |-> m_idx,
                                       reason |-> ReasonText("missing amazon_url")])
    /\ NextCandidate
    /\ UNCHANGED <<loop_vars, m_resp, m_accepted, m_over, m_found, m_payload, m_failed, m_decided,
                   m_uploads, m_raised_at, m_ret, m_summary>>

\* Lines 1728-1771: the two prices, the supplier fallback, enforce_rule.
M_Price ==
    /\ AtCandidate
    /\ \E amz_total \in MainAmz,
          cand_res \in {Absent} \cup ResolverOutcomes,
          search_res \in {Absent} \cup ResolverOutcomes,
          supplier_price \in {None, TenDollars},
          use_fallback \in BOOLEAN, soft_ok \in BOOLEAN, files \in 0..MaxFiles :
       LET r1 == IF cand_res = Absent THEN <<None, None>> ELSE cand_res
           search_called == r1 # Raised /\ r1[1] = None /\ search_res # Absent
           r2 == IF search_called THEN search_res ELSE r1
           ae_total ==
               IF r2[1] = None /\ supplier_price # None /\ use_fallback
               THEN supplier_price ELSE r2[1]
           d == enforce_rule(ae_total, amz_total, DefaultMinSpread * Dollar, soft_ok)
       IN
       IF r1 = Raised \/ r2 = Raised
       THEN /\ Raise("price")
            /\ UNCHANGED <<m_idx, m_cur, m_files, m_wins, m_gif, m_assets, m_td,
                           m_skipped, m_decided>>
       ELSE IF skip_unless_passed(d.passed)
       THEN /\ m_skipped' = Append(m_skipped, [external_id |-> m_idx, reason |-> d.reason])
            /\ m_decided' = [m_decided EXCEPT ![m_idx] = DecisionOf(d)]
            /\ NextCandidate
            /\ UNCHANGED m_raised_at
       ELSE /\ m_cur' = [ae_total |-> ae_total, amz_total |-> amz_total,
                         reason |-> d.reason, soft_flag |-> d.soft_flag,
                         rrp |-> RrpOf(ae_total, supplier_price)]
            /\ m_decided' = [m_decided EXCEPT ![m_idx] = DecisionOf(d)]
            /\ m_pc' = "assets"
            /\ m_files' = files
            /\ m_assets' = NoAssets
            /\ UNCHANGED <<m_idx, m_wins, m_gif, m_skipped, m_raised_at, m_td>>
    /\ UNCHANGED <<loop_vars, m_resp, m_accepted, m_over, m_found, m_payload, m_failed, m_uploads, m_ret,
                   m_summary>>

\* collect_and_upload: upload() of one file of assets_dir.  requests.post
\* raises on a timeout or a connection error; any HTTP status gives the url.
M_CollectUpload ==
    /\ m_prog = "import" /\ m_pc = "assets" /\ m_files > 0
    /\ m_uploads' = [m_uploads EXCEPT ![m_idx] = @ + 1]
    /\ \E post_raises \in BOOLEAN, suffix \in {"image", "gif", "other"},
          answer \in UploadAnswers :
          IF post_raises
          THEN /\ Raise("upload")
               /\ UNCHANGED <<m_files, m_assets>>
          ELSE /\ m_files' = m_files - 1
               /\ m_assets' = AddUrl(m_assets, suffix, answer)
               /\ UNCHANGED <<m_pc, m_raised_at>>
    /\ UNCHANGED <<loop_vars, m_resp, m_accepted, m_over, m_started, m_td, m_idx, m_found, m_payload,
                   m_skipped, m_failed, m_cur,
                   m_decided, m_wins, m_gif, m_ret, m_summary>>

\* with tempfile.TemporaryDirectory() as td: whatever way the block is left
td_kept(td) == td
td_after_with(td) == "removed"

\* After collect_and_upload: with no gif so far, auto_build_gifs is called;
\* without an inspiration reel it returns at once, else it opens its
\* temporary directory.
M_AutoGifs ==
    /\ m_prog = "import" /\ m_pc = "assets" /\ m_files = 0
    /\ IF m_assets.gifs > 0
       THEN m_pc' = "build" /\ UNCHANGED m_td
       ELSE \E has_reel \in BOOLEAN :
               IF has_reel THEN m_pc' = "gif_source" /\ m_td' = "exists"
               ELSE m_pc' = "build" /\ UNCHANGED m_td
    /\ UNCHANGED <<loop_vars, m_resp, m_accepted, m_over, m_started, m_idx, m_found, m_payload, m_skipped,
                   m_failed, m_cur, m_decided, m_uploads, m_files, m_assets, m_wins,
                   m_gif, m_raised_at, m_ret, m_summary>>

\* download_video, probe_video, find_clean_windows (or the naive thirds):
\* return [] on a failed download or a reel that is too short, an exception
\* of the window search, or the windows to encode.
M_GifSource ==
    /\ m_prog = "import" /\ m_pc = "gif_source"
    /\ \E outcome \in {"download_failed", "too_short", "raises", "windows"},
          wins \in 1..MaxWins :
          IF outcome = "windows"
          THEN /\ m_wins' = wins
               /\ m_pc' = "encode"
               /\ UNCHANGED <<m_td, m_raised_at>>
          ELSE IF outcome = "raises"
          THEN /\ m_td' = td_after_with(m_td)
               /\ Raise("windows")
               /\ UNCHANGED m_wins
          ELSE /\ m_td' = td_after_with(m_td)
               /\ m_pc' = "build"
               /\ UNCHANGED <<m_wins, m_raised_at>>
    /\ UNCHANGED <<loop_vars, m_resp, m_accepted, m_over, m_started, m_idx, m_found, m_payload, m_skipped,
                   m_failed, m_cur, m_decided, m_uploads, m_files, m_assets, m_gif,
                   m_ret, m_summary>>

\* encode_gif_budgeted for one window: no artifact (every palette_gif
\* failed), or a path.
M_Encode ==
    /\ m_prog = "import" /\ m_pc = "encode" /\ m_wins > 0
    /\ \E encoded \in BOOLEAN :
          IF encoded
          THEN /\ m_gif' = [path |-> TRUE, exists |-> gif_exists_after_encode]
               /\ m_pc' = "gif_upload"
               /\ UNCHANGED m_wins
          ELSE /\ m_wins' = m_wins - 1
               /\ UNCHANGED <<m_gif, m_pc>>
    /\ UNCHANGED <<loop_vars, m_resp, m_accepted, m_over, m_started, m_td, m_idx, m_found, m_payload,
                   m_skipped, m_failed, m_cur,
                   m_decided, m_uploads, m_files, m_assets, m_raised_at, m_ret,
                   m_summary>>

\* upload(token, gif_path, bucket_rel): open(local_path) raises when the file
\* is gone; then as for any upload.
M_GifUpload ==
    /\ m_prog = "import" /\ m_pc = "gif_upload"
    /\ m_uploads' = [m_uploads EXCEPT ![m_idx] = @ + 1]
    /\ \E post_raises \in BOOLEAN, answer \in UploadAnswers :
          IF ~m_gif.exists \/ post_raises
          THEN /\ Raise("upload")
               /\ m_td' = td_after_with(m_td)
               /\ UNCHANGED <<m_wins, m_assets, m_gif>>
          ELSE /\ m_assets' = AddUrl(m_assets, "gif", answer)
               /\ m_wins' = m_wins - 1
               /\ m_gif' = NoGif
               /\ m_pc' = "encode"
               /\ UNCHANGED <<m_raised_at, m_td>>
    /\ UNCHANGED <<loop_vars, m_resp, m_accepted, m_over, m_started, m_idx, m_found, m_payload, m_skipped,
                   m_failed, m_cur,
                   m_decided, m_files, m_ret, m_summary>>

\* auto_build_gifs returns its uploaded urls.
M_GifsDone ==
    /\ m_prog = "import" /\ m_pc = "encode" /\ m_wins = 0
    /\ m_pc' = "build"
    /\ m_td' = td_after_with(m_td)
    /\ UNCHANGED <<loop_vars, m_resp, m_accepted, m_over, m_started, m_idx, m_found, m_payload, m_skipped,
                   m_failed, m_cur,
                   m_decided, m_uploads, m_files, m_assets, m_wins, m_gif,
                   m_raised_at, m_ret, m_summary>>

\* Lines 1786-1803: build_product, the overrides, payload.append, found += 1.
M_Build ==
    /\ m_prog = "import" /\ m_pc = "build"
    /\ IF build_product_raises(m_cur.ae_total)
       THEN /\ Raise("build")
            /\ UNCHANGED <<m_idx, m_cur, m_files, m_wins, m_gif, m_assets, m_td,
                           m_payload, m_found>>
       ELSE /\ m_payload' = Append(m_payload, ProductOf(m_idx, m_cur, m_assets))
            /\ m_found' = m_found + 1
            /\ NextCandidate
            /\ UNCHANGED m_raised_at
    /\ UNCHANGED <<loop_vars, m_resp, m_accepted, m_over, m_started, m_skipped, m_failed, m_decided,
                   m_uploads, m_ret, m_summary>>

\* What requests.post of import_products can come to: a status, or an
\* exception (a timeout, a connection error).
RequestFailed == 0 - 4
UpsertOutcomes == {200, 201, 400, 500, RequestFailed}

\* if not r.ok: raise RuntimeError(...)
import_ok_always(resp) == TRUE
import_ok(resp) == resp # RequestFailed /\ resp < 400

\* Lines 1805-1829: nothing to import, or import_products, whose exception
\* (a non-success status, a timeout) is caught.
M_Import ==
    /\ m_prog = "import" /\ m_pc = "import"
    /\ IF m_payload = <<>>
       THEN /\ m_ret' = [total |-> m_n, successful |-> 0, failed |-> Len(m_failed),
                         skipped |-> m_skipped, error_text |-> FALSE]
            /\ UNCHANGED <<m_failed, m_resp, m_accepted>>
       ELSE \E resp \in UpsertOutcomes :
               LET failed == IF import_ok(resp) THEN m_failed
                             ELSE m_failed \o [i \in 1..Len(m_payload) |->
                                                  m_payload[i].external_id]
               IN /\ m_resp' = resp
                  /\ m_accepted' = IF import_ok(resp) THEN Len(m_payload) ELSE 0
                  /\ m_failed' = failed
                  /\ m_ret' = [total |-> m_n,
                               successful |-> IF import_ok(resp) THEN Len(m_payload) ELSE 0,
                               failed |-> Len(failed),
                               skipped |-> m_skipped, error_text |-> FALSE]
    /\ m_pc' = "returned"
    /\ UNCHANGED <<loop_vars, m_over, m_started, m_td, m_idx, m_found, m_payload,
                   m_skipped, m_cur, m_decided, m_uploads, m_files, m_assets, m_wins,
                   m_gif, m_raised_at, m_summary>>

\* __main__: the summary from what main returned, or from its exception;
\* the finally clause writes it.
M_Summary ==
    /\ m_prog \in {"import", "hmode"} /\ m_pc \in {"returned", "raised", "exited"}
    /\ m_summary' = IF m_pc = "returned" THEN m_ret
                    ELSE IF m_pc = "raised"
                    THEN [total |-> 0, successful |-> 0, failed |-> 1,
                          skipped |-> <<>>, error_text |-> TRUE]
                    ELSE [total |-> 0, successful |-> 0, failed |-> 0,
                          skipped |-> <<>>, error_text |-> FALSE]
    /\ m_pc' = "done"
    /\ UNCHANGED <<loop_vars, m_resp, m_accepted, m_over, m_started, m_td, m_idx, m_found, m_payload,
                   m_skipped, m_failed, m_cur,
                   m_decided, m_uploads, m_files, m_assets, m_wins, m_gif,
                   m_raised_at, m_ret>>

----------------------------------------------------------------------------
(* scripts/revoa_import.py: main, the hybrid-mode branch (lines 1364-1505) and
   the way from it into discovery *)

\* What the helpers of the branch hand back to it; the branch tests each
\* result for truth.
fetch_aliexpress_price_results == {None} \cup MainAe
HelperOk == BOOLEAN
\* if upsert_product(product, token): the catalog took the product, or not.
upsert_product_results == BOOLEAN

\* if spread < MIN_SPREAD_USD
low_spread(spread, min_spread_usd) == spread < min_spread_usd

\* if found >= target: break, at the end of an accepted reel
hybrid_break(found, target) == found >= target

HModeInitWith(min_spread_usd) ==
    /\ m_min_spread = min_spread_usd
    /\ m_prog = "hmode" /\ m_pc = "hm_loop"
    /\ m_target \in 1..MaxTarget
    /\ m_n \in 1..MaxTarget
    /\ m_idx = 1 /\ m_found = 0
    /\ m_payload = <<>> /\ m_skipped = <<>> /\ m_failed = <<>>
    /\ m_cur = NoCur /\ m_decided = [i \in Ids |-> "none"]
    /\ m_uploads = [i \in Ids |-> 0] /\ m_files = 0
    /\ m_assets = NoAssets /\ m_wins = 0 /\ m_gif = NoGif
    /\ m_raised_at = "none" /\ m_ret = NoSummary /\ m_summary = NoSummary
    /\ m_over = FALSE /\ m_started = 0 /\ m_td = "none" /\ m_resp = None
    /\ m_accepted = 0

HModeInit == HModeInitWith(MIN_SPREAD_USD * Dollar)

hm_fixed == <<loop_vars, m_resp, m_over, m_td, m_files, m_assets, m_wins, m_gif, m_raised_at,
              m_ret, m_summary>>

NextReel ==
    /\ m_idx' = m_idx + 1
    /\ m_pc' = "hm_loop"
    /\ m_cur' = NoCur

FailedReel(reason) ==
    /\ m_failed' = Append(m_failed, [reel |-> m_idx, reason |-> reason])
    /\ NextReel

\* Lines 1373-1408: one reel, up to the spread test.
HM_Reel ==
    /\ m_prog = "hmode" /\ m_pc = "hm_loop" /\ m_idx <= m_n
    /\ m_started' = m_started + 1
    /\ \E skip \in BOOLEAN, amazon_price \in MainAmz,
          ae_price \in fetch_aliexpress_price_results :
          IF skip
          THEN NextReel /\ UNCHANGED <<m_failed, m_skipped, m_decided>>
          ELSE IF amazon_price = None
          THEN FailedReel("amazon_price_fetch_failed") /\ UNCHANGED <<m_skipped, m_decided>>
          ELSE IF ae_price = None
          THEN FailedReel("aliexpress_price_fetch_failed")
               /\ UNCHANGED <<m_skipped, m_decided>>
          ELSE IF low_spread(amazon_price - ae_price, m_min_spread)
          THEN /\ m_skipped' = Append(m_skipped,
                                      [reel |-> m_idx,
                                       reason |-> [text |-> "low_spread",
                                                   spread |-> amazon_price - ae_price]])
               /\ m_decided' = [m_decided EXCEPT ![m_idx] = "fail"]
               /\ m_idx' = m_idx + 1
               /\ m_pc' = "hm_loop"
               /\ m_cur' = [NoCur EXCEPT !.ae_total = ae_price, !.amz_total = amazon_price]
               /\ UNCHANGED m_failed
          ELSE /\ m_decided' = [m_decided EXCEPT ![m_idx] = "pass"]
               /\ m_cur' = [NoCur EXCEPT !.ae_total = ae_price, !.amz_total = amazon_price]
               /\ m_pc' = "hm_assets"
               /\ UNCHANGED <<m_idx, m_failed, m_skipped>>
    /\ UNCHANGED <<hm_fixed, m_accepted, m_found, m_payload, m_uploads>>

\* Lines 1410-1480: the reel, its GIF, the two uploads, the record.
HM_Assets ==
    /\ m_prog = "hmode" /\ m_pc = "hm_assets"
    /\ \E video_path \in HelperOk, gif_path \in HelperOk,
          video_url \in HelperOk, gif_url \in HelperOk :
          IF ~video_path
          THEN FailedReel("download_failed") /\ UNCHANGED <<m_uploads, m_payload, m_found>>
          ELSE IF ~gif_path
          THEN FailedReel("gif_conversion_failed")
               /\ UNCHANGED <<m_uploads, m_payload, m_found>>
          ELSE /\ m_uploads' = [m_uploads EXCEPT ![m_idx] = @ + 2]
               /\ IF ~video_url \/ ~gif_url
                  THEN FailedReel("upload_failed") /\ UNCHANGED <<m_payload, m_found>>
                  ELSE /\ m_payload' = Append(m_payload,
                              [external_id |-> m_idx,
                               supplier_price |-> m_cur.ae_total,
                               recommended_retail_price |-> None,
                               price_rule_reason |-> m_cur.reason,
                               admin_review_required |-> FALSE,
                               gifs |-> 1])
                       /\ m_found' = m_found + 1
                       /\ m_cur' = NoCur
                       /\ IF hybrid_break(m_found + 1, m_target)
                          THEN m_pc' = "hm_end" /\ UNCHANGED m_idx
                          ELSE m_pc' = "hm_loop" /\ m_idx' = m_idx + 1
                       /\ UNCHANGED m_failed
    /\ UNCHANGED <<hm_fixed, m_accepted, m_started, m_skipped, m_decided>>

\* for reel_url in provided_urls: exhausted
HM_LoopEnd ==
    /\ m_prog = "hmode" /\ m_pc = "hm_loop" /\ m_idx > m_n
    /\ m_pc' = "hm_end"
    /\ UNCHANGED <<hm_fixed, m_started, m_idx, m_found, m_payload, m_skipped, m_failed,
                   m_cur, m_decided, m_uploads, m_accepted>>

\* Lines 1485-1505: with a product found, the upserts, the printed summary and
\* sys.exit(0); with none, on to discovery.
HM_End ==
    /\ m_prog = "hmode" /\ m_pc = "hm_end"
    /\ m_pc' = IF m_found > 0 THEN "exited" ELSE "discovery"
    /\ IF m_found > 0
       THEN \E results \in [1..Len(m_payload) -> upsert_product_results] :
               m_accepted' = Cardinality({i \in 1..Len(m_payload) : results[i]})
       ELSE UNCHANGED m_accepted
    /\ UNCHANGED <<hm_fixed, m_started, m_idx, m_found, m_payload, m_skipped, m_failed,
                   m_cur, m_decided, m_uploads>>

\* Lines 1530-1696: sys.exit when no url is a valid reel url or no product is
\* identified; else specs is ready and the pricing loop begins.
HM_Discovery ==
    /\ m_prog = "hmode" /\ m_pc = "discovery"
    /\ \E specs_found \in BOOLEAN :
          m_pc' = IF specs_found THEN "pricing" ELSE "exited"
    /\ UNCHANGED <<hm_fixed, m_started, m_idx, m_found, m_payload, m_skipped, m_failed,
                   m_cur, m_decided, m_uploads, m_accepted>>

\* The reel the prices in hand were fetched for.
PricedReel == IF m_pc = "hm_assets" THEN m_idx ELSE m_idx - 1

\* C26 as claimed: in the hybrid-mode branch a reel with both prices known is
\* accepted (its assets are generated) exactly when the AliExpress price is
\* at most half the Amazon price or the spread reaches MIN_SPREAD_USD; a reel
\* that meets the half-price condition alone is accepted.
C26_HybridGateIsTheRule ==
    (m_prog = "hmode" /\ m_cur.ae_total # None /\ m_cur.amz_total # None) =>
        (m_decided[PricedReel] = "pass" <=>
            ArithmeticRule(m_cur.ae_total, m_cur.amz_total, m_min_spread))

\* C15: in every loop of main that processes candidates, the processing of a
\* candidate begins only when neither budget is exceeded (fewer than target
\* accepted, runtime within MAX_RUNTIME_MIN), and the payload never holds
\* more than target records.
C15_BudgetsBeforeEachCandidate ==
    /\ [][m_started' > m_started => (~m_over /\ m_found < m_target)]_vars
    /\ [](Len(m_payload) <= m_target)

----------------------------------------------------------------------------
(* revoa_hybrid.py: main *)

\* make_gifs: for s in starts[:3]
HybridGifs == 3
\* (spread >= 20)
HybridSpread == 20

\* Lines 214-228 of revoa_hybrid.py.
hybrid_decision(ae_total, amz_total, soft_pass) ==
    IF ae_total = None \/ amz_total = None
    THEN IF soft_pass THEN "soft" ELSE "fail"
    ELSE IF ae_total * 2 <= amz_total \/ amz_total - ae_total >= HybridSpread * Dollar
    THEN "pass" ELSE "fail"

\* if not pass_rule: return
hybrid_return_never(decision) == FALSE
hybrid_returns(decision) == decision = "fail"

HybridInit ==
    /\ m_min_spread = 0
    /\ m_prog = "hybrid" /\ m_pc = "h_start"
    /\ m_target = 1 /\ m_n = 1 /\ m_idx = 1 /\ m_found = 0
    /\ m_payload = <<>> /\ m_skipped = <<>> /\ m_failed = <<>>
    /\ m_cur = NoCur /\ m_decided = [i \in Ids |-> "none"]
    /\ m_uploads = [i \in Ids |-> 0] /\ m_files = 0
    /\ m_assets = NoAssets /\ m_wins = 0 /\ m_gif = NoGif
    /\ m_raised_at = "none" /\ m_ret = NoSummary /\ m_summary = NoSummary
    /\ m_over = FALSE /\ m_started = 0 /\ m_td = "none" /\ m_resp = None
    /\ m_accepted = 0

\* login, download_reel_mp4, extract_main_image, make_gifs: each raises on
\* a failing tool (check=True); nothing is uploaded here.
H_Prepare ==
    /\ m_prog = "hybrid" /\ m_pc = "h_start"
    /\ \E tool_fails \in BOOLEAN :
          IF tool_fails THEN Raise("prepare")
          ELSE m_pc' = "h_price" /\ UNCHANGED m_raised_at
    /\ UNCHANGED <<loop_vars, m_resp, m_accepted, m_over, m_started, m_td, m_idx, m_found, m_payload,
                   m_skipped, m_failed, m_cur,
                   m_decided, m_uploads, m_files, m_assets, m_wins, m_gif, m_ret,
                   m_summary>>

\* Lines 190-232: the two totals and the rule.
H_Price ==
    /\ m_prog = "hybrid" /\ m_pc = "h_price"
    /\ \E amz_total \in MainAmz, ae_total \in {None} \cup MainAe, soft_pass \in BOOLEAN :
          LET d == hybrid_decision(ae_total, amz_total, soft_pass) IN
          /\ m_decided' = [m_decided EXCEPT ![m_idx] = d]
          /\ m_cur' = [NoCur EXCEPT !.ae_total = ae_total, !.amz_total = amz_total,
                                    !.soft_flag = (d = "soft")]
          /\ IF hybrid_returns(d)
             THEN m_pc' = "done" /\ m_files' = 0
             ELSE m_pc' = "h_upload" /\ m_files' = 1 + HybridGifs
    /\ UNCHANGED <<loop_vars, m_resp, m_accepted, m_over, m_started, m_td, m_idx, m_found, m_payload,
                   m_skipped, m_failed,
                   m_uploads, m_assets, m_wins, m_gif, m_raised_at, m_ret, m_summary, m_over, m_started, m_td, m_resp>>

\* upload_file of main.jpg, then of each gif.
H_Upload ==
    /\ m_prog = "hybrid" /\ m_pc = "h_upload" /\ m_files > 0
    /\ m_uploads' = [m_uploads EXCEPT ![m_idx] = @ + 1]
    /\ \E post_raises \in BOOLEAN :
          IF post_raises
          THEN Raise("upload") /\ UNCHANGED m_files
          ELSE m_files' = m_files - 1 /\ UNCHANGED <<m_pc, m_raised_at>>
    /\ UNCHANGED <<loop_vars, m_resp, m_accepted, m_over, m_started, m_td, m_idx, m_found, m_payload,
                   m_skipped, m_failed, m_cur,
                   m_decided, m_assets, m_wins, m_gif, m_ret, m_summary>>

\* import_product: r.json() of whatever the endpoint answered, or an exception.
H_Import ==
    /\ m_prog = "hybrid" /\ m_pc = "h_upload" /\ m_files = 0
    /\ \E post_raises \in BOOLEAN :
          IF post_raises
          THEN Raise("import") /\ UNCHANGED m_payload
          ELSE /\ m_payload' = <<[external_id |-> m_idx,
                                  supplier_price |-> m_cur.ae_total,
                                  recommended_retail_price |-> None,
                                  price_rule_reason |-> m_cur.reason,
                                  admin_review_required |-> FALSE,
                                  gifs |-> HybridGifs]>>
               /\ m_pc' = "done"
               /\ UNCHANGED m_raised_at
    /\ UNCHANGED <<loop_vars, m_resp, m_accepted, m_over, m_started, m_td, m_idx, m_found, m_skipped,
                   m_failed, m_cur, m_decided,
                   m_uploads, m_files, m_assets, m_wins, m_gif, m_ret, m_summary>>

----------------------------------------------------------------------------
(* Properties of the two main programs *)

Uploaded(id) == m_uploads[id] > 0

\* C2: in the pricing loop of revoa_import.py and in main of revoa_hybrid.py,
\* an upload has been issued for a candidate only if that candidate's
\* pricing decision was computed as PASS or SOFT-PASS; a candidate whose
\* decision is a fail has no upload.
C2_NoUploadBeforePass ==
    \A id \in Ids : Uploaded(id) => m_decided[id] \in {"pass", "soft"}

\* C2, the case: one run of the loop in which a first candidate failed the
\* rule and has no upload, and a second passed and has one.
C2_Witness ==
    /\ m_prog = "import"
    /\ \E a, b \in Ids :
          /\ m_decided[a] = "fail" /\ ~Uploaded(a)
          /\ m_decided[b] = "pass" /\ Uploaded(b)

\* C3: in the pricing loop of revoa_import.py, an exception raised by an
\* upload or by building the record of one candidate is caught: it never
\* leaves main, so the loop goes on and the batch import is still attempted.
C3_CandidateFailureCaught ==
    m_prog = "import" => ~(m_pc = "raised" /\ m_raised_at \in {"upload", "build"})

\* C22 as claimed: an upload the storage answered with a non-success status
\* other than "already exists" adds no url to the candidate's assets: the
\* assets handed to build_product hold no url of a refused upload.
C22_RefusedUploadGivesNoUrl ==
    (m_prog = "import" /\ m_pc \in {"assets", "build"}) => m_assets.unstored = 0

IdsOf(list) == {list[k].external_id : k \in DOMAIN list}

C29_ConfiguredSpreadApplied ==
    m_prog = "import" =>
        /\ (/\ m_pc = "assets"
            /\ m_cur.ae_total # None /\ m_cur.amz_total # None
            /\ m_cur.ae_total * 2 > m_cur.amz_total)
              => m_cur.amz_total - m_cur.ae_total >= m_min_spread
        /\ \A k \in DOMAIN m_skipped :
              m_skipped[k].reason.branch = "FAIL" =>
                  m_skipped[k].reason.spread < m_min_spread

\* C28 as claimed: whenever encode_gif_budgeted has returned a path to
\* auto_build_gifs, the file at that path exists, so that upload can open it.
C28_ReturnedArtifactExists ==
    (m_prog = "import" /\ m_gif.path) => m_gif.exists

\* C16: the temporary directory auto_build_gifs works in exists only while
\* auto_build_gifs runs: after any way out of it (a failed download, a reel
\* too short, every encode failing, the normal return, an exception) it is
\* gone.
C16_TempDirRemoved ==
    m_td = "exists" => m_pc \in {"gif_source", "encode", "gif_upload"}

\* C16, the case: auto_build_gifs was left by the exception of an upload and
\* its directory is gone.
C16_Witness ==
    m_pc = "raised" /\ m_raised_at = "upload" /\ m_td = "removed"

NonSuccess(resp) == resp # None /\ resp # RequestFailed /\ resp >= 400

\* C17: when the catalog upsert call answers a non-success status, main
\* reports successful = 0 and every product of the payload is in the failed
\* list; successful is 0 or the size of the payload, never in between.
C17_BatchFailsWhole ==
    (m_prog = "import" /\ m_ret # NoSummary) =>
        /\ m_ret.successful \in {0, Len(m_payload)}
        /\ NonSuccess(m_resp) =>
              /\ m_ret.successful = 0
              /\ \A i \in 1..Len(m_payload) :
                    \E k \in 1..Len(m_failed) : m_failed[k] = m_payload[i].external_id
              /\ m_ret.failed = Len(m_failed)

\* C17, the case: a payload of two products, the upsert answered 500, and
\* main returned successful 0 and failed 2.
C17_Witness ==
    /\ m_prog = "import" /\ m_pc = "returned" /\ m_resp = 500
    /\ Len(m_payload) = 2 /\ m_ret.successful = 0 /\ m_ret.failed = 2

\* C20: however main ends (a return, an exception, sys.exit), the run ends
\* with a written summary that has the counts and the skipped list, and the
\* skips recorded during the run are in it.
C20_SummaryCarriesSkips ==
    (m_prog \in {"import", "hmode"} /\ m_pc = "done") =>
        /\ m_summary.total # None /\ m_summary.successful # None
        /\ m_summary.failed # None
        /\ m_summary.skipped = m_skipped

\* C30 as claimed: on every exit path of main, the written summary has
\* successful equal to the number of products the catalog accepted in the
\* run, a total that covers the products queued, and, unless an exception
\* ended the run, failed equal to the number of recorded failures.
C30_SummaryCountsAccepted ==
    (m_prog \in {"import", "hmode"} /\ m_pc = "done") =>
        /\ m_summary.successful = m_accepted
        /\ m_summary.total >= Len(m_payload)
        /\ ~m_summary.error_text => m_summary.failed = Len(m_failed)

\* C6: in main of revoa_import.py, a candidate whose decision is SOFT-PASS
\* and that reached the build step has its record appended to the payload
\* with admin_review_required set.
C6_SoftPassRecordQueued ==
    [][(m_prog = "import" /\ m_pc = "build" /\ m_cur.soft_flag)
          => /\ Len(m_payload') = Len(m_payload) + 1
             /\ m_payload'[Len(m_payload')].external_id = m_idx
             /\ m_payload'[Len(m_payload')].admin_review_required]_vars

----------------------------------------------------------------------------
(* scripts/revoa_import.py: fetch_html_with_retry, parse_amazon_prime_price,
   fetch_amazon_price_prime_only *)

SCRAPE_MAX_RETRIES == 4
SCRAPE_SLEEP_BASE == 2
StatusOk == 200
StatusUnavailable == 503

RECURSIVE Pow2(_)
Pow2(n) == IF n = 0 THEN 1 ELSE 2 * Pow2(n - 1)

\* What one requests.get can come to: a response with a status, or a
\* requests.RequestException (timeout, connection error).
NoResponse == [kind |-> "none", status |-> 0]
RequestError == [kind |-> "request_error", status |-> 0]
Responses ==
    {[kind |-> "status", status |-> c] :
        c \in {StatusOk, StatusUnavailable, StatusUnavailable - 3, StatusOk * 2 + 4}}
    \cup {RequestError}

\* except requests.RequestException as e
except_catches_nothing(kind) == FALSE
except_catches(kind) == kind = "request_error"

\* elif r.status_code == 503
retried_status(status) == status = StatusUnavailable

\* if attempt < max_retries - 1
sleeps_before_retry(attempt, max_retries) == attempt < max_retries - 1

\* sleep_time = base_sleep * (2 ** attempt)
sleep_time(base_sleep, attempt) == base_sleep * Pow2(attempt)

\* An Amazon page: the Prime badge, and what _num gives for the price
\* selectors that match, in order, and for the regex fallbacks that match.
NumValues == {None, 0, TenDollars}
RECURSIVE SeqsUpTo(_, _)
SeqsUpTo(S, n) ==
    IF n = 0 THEN {<<>>}
    ELSE LET shorter == SeqsUpTo(S, n - 1) IN
         shorter \cup {Append(q, x) : q \in shorter, x \in S}
AmazonPages ==
    [is_prime : BOOLEAN, soup : SeqsUpTo(NumValues, MaxHits),
     regex : SeqsUpTo(NumValues, MaxHits)]

\* for ...: price = _num(...); if price: break
RECURSIVE FirstTruthy(_, _)
FirstTruthy(hits, price) ==
    IF hits = <<>> THEN price
    ELSE IF Head(hits) # None /\ Head(hits) # 0 THEN Head(hits)
    ELSE FirstTruthy(Tail(hits), Head(hits))

parse_amazon_prime_price(html, page) ==
    IF html # "page" THEN [price |-> None, is_prime |-> FALSE]
    ELSE LET soup_price == FirstTruthy(page.soup, None)
             price == IF soup_price = None THEN FirstTruthy(page.regex, None)
                      ELSE soup_price
         IN [price |-> price, is_prime |-> page.is_prime]

\* if not is_prime or price is None: return None
prime_not_required(is_prime) == FALSE
no_prime(is_prime) == ~is_prime

fetch_amazon_price_prime_only(html, page) ==
    LET p == parse_amazon_prime_price(html, page) IN
    IF no_prime(p.is_prime) \/ p.price = None THEN None ELSE p.price

\* No value returned so far.
NotYet == 0 - 3

ScrapeIdle ==
    /\ f_max_retries = 0 /\ f_base_sleep = 0
    /\ f_page = [is_prime |-> FALSE, soup |-> <<>>, regex |-> <<>>]
    /\ f_attempt = 0 /\ f_requests = 0 /\ f_last = NoResponse /\ f_slept = None
    /\ f_html = "pending" /\ f_pc = "idle" /\ f_ret = NotYet

ScrapeInit ==
    /\ f_max_retries \in {0, 1, SCRAPE_MAX_RETRIES}
    /\ f_base_sleep \in {1, SCRAPE_SLEEP_BASE}
    /\ f_page \in AmazonPages
    /\ f_attempt = 0 /\ f_requests = 0 /\ f_last = NoResponse /\ f_slept = None
    /\ f_html = "pending" /\ f_pc = "loop" /\ f_ret = NotYet

\* One pass of `for attempt in range(max_retries)`.
F_Attempt ==
    /\ f_pc = "loop" /\ f_attempt < f_max_retries
    /\ f_requests' = f_requests + 1
    /\ \E resp \in Responses, body_empty \in BOOLEAN :
          /\ f_last' = resp
          /\ IF resp.kind = "request_error" /\ ~except_catches(resp.kind)
             THEN /\ f_pc' = "raised"
                  /\ UNCHANGED <<f_attempt, f_slept, f_html>>
             ELSE IF resp.kind = "status" /\ resp.status = StatusOk
             THEN /\ f_html' = IF body_empty THEN "empty" ELSE "page"
                  /\ f_pc' = "fetched"
                  /\ f_slept' = None
                  /\ UNCHANGED f_attempt
             ELSE /\ f_attempt' = f_attempt + 1
                  /\ f_slept' =
                        IF /\ resp.kind = "request_error" \/ retried_status(resp.status)
                           /\ sleeps_before_retry(f_attempt, f_max_retries)
                        THEN sleep_time(f_base_sleep, f_attempt)
                        ELSE None
                  /\ UNCHANGED <<f_html, f_pc>>
    /\ UNCHANGED <<f_max_retries, f_base_sleep, f_page, f_ret>>

\* The for loop is over: return None.
F_Exhausted ==
    /\ f_pc = "loop" /\ f_attempt >= f_max_retries
    /\ f_html' = "none"
    /\ f_pc' = "fetched"
    /\ UNCHANGED <<f_max_retries, f_base_sleep, f_page, f_attempt, f_requests,
                   f_last, f_slept, f_ret>>

\* fetch_amazon_price_prime_only on what fetch_html returned.
F_Price ==
    /\ f_pc = "fetched"
    /\ f_ret' = fetch_amazon_price_prime_only(f_html, f_page)
    /\ f_pc' = "done"
    /\ UNCHANGED <<f_max_retries, f_base_sleep, f_page, f_attempt, f_requests,
                   f_last, f_slept, f_html>>

----------------------------------------------------------------------------
(* Properties of the fetch and of the Amazon price *)

PrimeSignal == f_html = "page" /\ f_page.is_prime
ParsedPrice == parse_amazon_prime_price(f_html, f_page).price

\* C11: fetch_amazon_price_prime_only returns None whenever the page carries
\* no Prime signal, even if a price was extracted; what it returns other
\* than None is the parsed price of a page that carries the Prime signal.
C11_PrimeOnly ==
    f_pc = "done" =>
        /\ ~PrimeSignal => f_ret = None
        /\ f_ret # None => PrimeSignal /\ ParsedPrice # None /\ f_ret = ParsedPrice

\* C11, the case: a fetched page with a price and no Prime badge gave None.
C11_Witness ==
    /\ f_pc = "done" /\ f_html = "page" /\ ~f_page.is_prime
    /\ ParsedPrice = TenDollars /\ f_ret = None

GotOk == f_last.kind = "status" /\ f_last.status = StatusOk

\* C18: fetch_html_with_retry issues at most max_retries requests, never
\* raises, returns None when no attempt answered 200, and always returns.
C18_BoundedFetch ==
    /\ [](/\ f_requests <= f_max_retries
          /\ f_pc # "raised"
          /\ (f_html # "pending" /\ ~GotOk) => f_html = "none")
    /\ <>(f_html # "pending")

\* C18, the case: every one of the max_retries attempts failed, the last one
\* by a request error, and None was returned.
C18_Witness ==
    /\ f_max_retries = SCRAPE_MAX_RETRIES /\ f_requests = f_max_retries
    /\ f_last = RequestError /\ f_html = "none"

Transient(resp) ==
    resp.kind = "request_error" \/ (resp.kind = "status" /\ resp.status >= StatusUnavailable - 3)
Permanent(resp) ==
    resp.kind = "status" /\ resp.status > StatusOk /\ resp.status < StatusUnavailable - 3
AnotherAttemptFollows == f_pc = "loop" /\ f_attempt > 0 /\ f_attempt < f_max_retries

\* C19: after a transient failure (a 5xx status or a request error) that is
\* followed by another attempt, the wait was base_sleep * 2^attempt; after a
\* permanent failure (a 4xx status) no other attempt follows.
C19_BackoffOnTransient ==
    /\ (AnotherAttemptFollows /\ Transient(f_last))
           => f_slept = f_base_sleep * Pow2(f_attempt - 1)
    /\ Permanent(f_last) => ~AnotherAttemptFollows

----------------------------------------------------------------------------
(* scripts/revoa_import.py: find_clean_windows.  Times are tenths of a second,
   scores are hundredths, clean ratios are thousandths. *)

GIF_VARIANTS == 3
\* abs(a - s[0]) < 1.0
SpacingFloor == 10
\* min_s = 3.0
WinMinLen == 30
\* ratio_needed = 0.90
RatioNeeded == 90

\* clean_thresh = 0.35, in hundredths
CleanThresh == 35
\* if mask.sum() < 3: continue
MinSamples == 3
\* Time between two sampled frames (frame_step / fps), in tenths of a second.
SampleStep == 3
\* Clean ratios are kept in thousandths, which tells apart any two ratios of
\* windows of the model.
RatioScale == 10 * 10 * 10

\* Distance between two consecutive anchors of np.linspace(0, dur - min_s):
\* under the spacing floor, or at it.
AnchorGaps == {4, 6, SpacingFloor}
Abs(x) == IF x < 0 THEN 0 - x ELSE x

\* dur of a reel whose anchors are gap apart.
DurOf(gap) == (MaxAnchors - 1) * gap + WinMinLen

\* times of sample_frames_for_scoring when every read succeeds: idx / fps
\* while idx < total.
FullCount(dur) == (dur - 1) \div SampleStep + 1
SampleTimes(n) == [i \in 1..n |-> (i - 1) * SampleStep]

\* The sampling stops at the first frame that cannot be read: after two
\* samples, half way, or never.
SampleCounts(dur) == {2, FullCount(dur) \div 2, FullCount(dur)}

\* Scores just under the threshold, but for at most MaxDirty samples at it.
ScoreSeqs(n) ==
    {[i \in 1..n |-> IF i \in D THEN CleanThresh ELSE CleanThresh - 1] :
        D \in {X \in SUBSET (1..n) : Cardinality(X) <= MaxDirty}}

\* arr_s[mask] < clean_thresh
is_clean(score) == score < CleanThresh

\* if mask.sum() < 3: continue
too_few(n) == n < MinSamples

\* if clean_ratio >= ratio_needed
clean_enough_always(clean, n) == TRUE
clean_enough(clean, n) == clean * 100 >= RatioNeeded * n

\* mask = (arr_t >= a) & (arr_t <= b)
Mask(times, a, b) == {i \in DOMAIN times : times[i] >= a /\ times[i] <= b}
CleanIn(scores, mask) == Cardinality({i \in mask : is_clean(scores[i])})

\* candidates, in the order the two for loops append them.
RECURSIVE AppendCandidates(_, _, _, _, _)
AppendCandidates(k, times, scores, gap, acc) ==
    IF k >= MaxAnchors THEN acc
    ELSE LET a == k * gap
             one(L) ==
                 LET b == Min2(DurOf(gap), a + L)
                     mask == Mask(times, a, b)
                     n == Cardinality(mask)
                     clean == CleanIn(scores, mask)
                 IN IF too_few(n) THEN <<>>
                    ELSE IF clean_enough(clean, n)
                    THEN <<[ratio |-> (clean * RatioScale) \div n, a |-> a, b |-> b]>>
                    ELSE <<>>
         \* the shortest and the longest of the lengths np.linspace(min_s, max_s)
         IN AppendCandidates(k + 1, times, scores, gap,
                             acc \o one(WinMinLen) \o one(2 * WinMinLen))

\* candidates.sort(key=lambda x: (-x[0], x[1]))
WinKeyLess(x, y) == x.ratio > y.ratio \/ (x.ratio = y.ratio /\ x.a < y.a)

RECURSIVE WinInsert(_, _)
WinInsert(sorted, x) ==
    IF sorted = <<>> THEN <<x>>
    ELSE IF WinKeyLess(x, Head(sorted)) THEN <<x>> \o sorted
    ELSE <<Head(sorted)>> \o WinInsert(Tail(sorted), x)

RECURSIVE WinSort(_)
WinSort(q) == IF q = <<>> THEN <<>> ELSE WinInsert(WinSort(SubSeq(q, 1, Len(q) - 1)), q[Len(q)])

\* any(abs(a - s[0]) < 1.0 for s in selected)
too_close_never(a, selected) == FALSE
too_close(a, selected) ==
    \E j \in 1..Len(selected) : Abs(a - selected[j].start) < SpacingFloor

WindowsIdle ==
    /\ w_times = <<>> /\ w_scores = <<>>
    /\ w_cands = <<>> /\ w_wanted = 0 /\ w_i = 1 /\ w_selected = <<>>
    /\ w_pc = "idle" /\ w_ret = <<>>

WindowsInit ==
    /\ \E gap \in AnchorGaps :
       \E n \in SampleCounts(DurOf(gap)) :
       \E scores \in ScoreSeqs(n) :
          /\ w_times = SampleTimes(n)
          /\ w_scores = scores
          /\ w_cands = WinSort(AppendCandidates(0, SampleTimes(n), scores, gap, <<>>))
    /\ w_wanted \in {1, GIF_VARIANTS}
    /\ w_i = 1 /\ w_selected = <<>> /\ w_pc = "select" /\ w_ret = <<>>

\* One pass of `for score, a, b in candidates`.
W_Consider ==
    /\ w_pc = "select" /\ w_i <= Len(w_cands) /\ Len(w_selected) < w_wanted
    /\ LET c == w_cands[w_i] IN
       w_selected' = IF too_close(c.a, w_selected) THEN w_selected
                     ELSE Append(w_selected, [start |-> c.a, end |-> c.b, score |-> c.ratio])
    /\ w_i' = w_i + 1
    /\ UNCHANGED <<w_times, w_scores, w_cands, w_wanted, w_pc, w_ret>>

\* The loop is left (break, or exhausted): wins = selected[:wanted].
W_Return ==
    /\ w_pc = "select"
    /\ w_i > Len(w_cands) \/ Len(w_selected) >= w_wanted
    /\ w_ret' = SubSeq(w_selected, 1, Min2(Len(w_selected), w_wanted))
    /\ w_pc' = "returned"
    /\ UNCHANGED <<w_times, w_scores, w_cands, w_wanted, w_i, w_selected>>

\* C12: any two distinct windows of the list find_clean_windows returns
\* start at least the spacing floor apart, and the list has at most wanted
\* windows.
C12_SpacedWindows ==
    w_pc = "returned" =>
        /\ Len(w_ret) <= w_wanted
        /\ \A i, j \in 1..Len(w_ret) :
              i # j => Abs(w_ret[i].start - w_ret[j].start) >= SpacingFloor

\* C12, the case: two windows were returned and a clean candidate closer
\* than the floor to one of them was left out.
C12_Witness ==
    /\ w_pc = "returned" /\ Len(w_ret) = 2 /\ w_wanted = GIF_VARIANTS
    /\ \E k \in 1..Len(w_cands) : \E j \in 1..Len(w_ret) :
          /\ w_cands[k].a # w_ret[j].start
          /\ Abs(w_cands[k].a - w_ret[j].start) < SpacingFloor

\* The sampled frames a window contains, and the clean ones among them.
SamplesIn(a, b) == {i \in DOMAIN w_times : a <= w_times[i] /\ w_times[i] <= b}
CleanSamplesIn(a, b) == {i \in SamplesIn(a, b) : w_scores[i] < CleanThresh}
CleanWindow(a, b) ==
    /\ Cardinality(SamplesIn(a, b)) >= 3
    /\ 10 * Cardinality(CleanSamplesIn(a, b)) >= 9 * Cardinality(SamplesIn(a, b))

\* C27: every candidate window find_clean_windows admits, and every window
\* of the list it returns, contains at least 3 sampled frames of which at
\* least 90% score below the cleanliness threshold; the score of a returned
\* window is that share; and the returned list is ordered by cleanliness
\* descending, then start time ascending.
C27_OnlyCleanWindowsInOrder ==
    /\ \A k \in DOMAIN w_cands : CleanWindow(w_cands[k].a, w_cands[k].b)
    /\ w_pc = "returned" =>
          /\ \A i \in DOMAIN w_ret :
                /\ CleanWindow(w_ret[i].start, w_ret[i].end)
                /\ w_ret[i].score =
                       (Cardinality(CleanSamplesIn(w_ret[i].start, w_ret[i].end)) * RatioScale)
                           \div Cardinality(SamplesIn(w_ret[i].start, w_ret[i].end))
          /\ \A i, j \in DOMAIN w_ret :
                i < j => \/ w_ret[i].score > w_ret[j].score
                         \/ /\ w_ret[i].score = w_ret[j].score
                            /\ w_ret[i].start <= w_ret[j].start

\* C27, the case: two windows were returned, the second less clean than the
\* first and starting before it, and a window with enough samples was left
\* out for a frame too many at the threshold.
C27_Witness ==
    /\ w_pc = "returned" /\ Len(w_ret) = 2
    /\ w_ret[1].score > w_ret[2].score
    /\ w_ret[1].start > w_ret[2].start
    /\ \E i \in DOMAIN w_times : i + 2 \in DOMAIN w_times /\
           ~CleanWindow(w_times[i], w_times[i] + WinMinLen)

----------------------------------------------------------------------------
(* scripts/revoa_import.py: encode_gif_budgeted.  Sizes are whole megabytes. *)

GIF_MAX_MB == 20
GIF_MIN_FPS == 10
FpsStep == 2

\* targets = [1080, 960, 864, 768, 720, 640], its first MaxWidths entries
Targets == SubSeq(<<1080, 960, 864, 768, 720, 640>>, 1, MaxWidths)

\* fps_vals = list(range(fps_target, fps_min - 1, -2))
RECURSIVE FpsVals(_, _)
FpsVals(fps_target, fps_min) ==
    IF fps_target < fps_min THEN <<>>
    ELSE <<fps_target>> \o FpsVals(fps_target - FpsStep, fps_min)

\* What one palette_gif call gives: None (not ok) or the size of out_gif.
EncodeOutcomes == {None, GIF_MAX_MB, GIF_MAX_MB + 1, GIF_MAX_MB + 2}

\* if mb <= size_cap_mb
meets_cap_never(mb, size_cap_mb) == FALSE
meets_cap(mb, size_cap_mb) == mb <= size_cap_mb

\* if (best is None) or (mb < best[1])
smaller_never(mb, best_mb) == FALSE
smaller(mb, best_mb) == mb < best_mb

\* The orders in which Path(td).glob("tmp_*.gif") can yield the files S.
RECURSIVE GlobOrders(_)
GlobOrders(S) ==
    IF S = {} THEN {<<>>}
    ELSE UNION {{<<x>> \o q : q \in GlobOrders(S \ {x})} : x \in S}

\* The last-resort loop over the files, in the order the glob yields them.
RECURSIVE SmallestIn(_, _, _)
SmallestIn(order, tried, best) ==
    IF order = <<>> THEN best
    ELSE LET p == Head(order) IN
         SmallestIn(Tail(order), tried,
                    IF best = 0 \/ smaller(tried[p].mb, tried[best].mb) THEN p ELSE best)

NoArtifact == [path |-> 0, w |-> None, fps |-> None, mb |-> None]

EncodeIdle ==
    /\ e_fps_target = 0 /\ e_w = 1 /\ e_f = 1 /\ e_tried = <<>>
    /\ e_pc = "idle" /\ e_ret = NoArtifact

EncodeInit ==
    /\ e_fps_target \in {GIF_MIN_FPS - FpsStep + k : k \in 0..MaxFpsSpan}
    /\ e_w = 1 /\ e_f = 1 /\ e_tried = <<>>
    /\ e_pc = "search" /\ e_ret = NoArtifact

SearchOver ==
    e_w > Len(Targets) \/ FpsVals(e_fps_target, GIF_MIN_FPS) = <<>>

\* One pass of the inner loop: palette_gif at (w, fps), then the size test.
E_Encode ==
    /\ e_pc = "search" /\ ~SearchOver
    /\ LET fps_vals == FpsVals(e_fps_target, GIF_MIN_FPS)
           w == Targets[e_w]
           fps == fps_vals[e_f]
       IN \E mb \in EncodeOutcomes :
             /\ e_tried' = Append(e_tried, [w |-> w, fps |-> fps, mb |-> mb])
             /\ IF mb # None /\ meets_cap(mb, GIF_MAX_MB)
                THEN /\ e_ret' = [path |-> Len(e_tried) + 1, w |-> w, fps |-> fps, mb |-> mb]
                     /\ e_pc' = "returned"
                     /\ UNCHANGED <<e_w, e_f>>
                ELSE /\ IF e_f < Len(fps_vals)
                        THEN e_f' = e_f + 1 /\ e_w' = e_w
                        ELSE e_f' = 1 /\ e_w' = e_w + 1
                     /\ UNCHANGED <<e_pc, e_ret>>
    /\ UNCHANGED e_fps_target

\* Both loops are over: the smallest of the files left in td, or nothing.
E_LastResort ==
    /\ e_pc = "search" /\ SearchOver
    /\ LET files == {k \in 1..Len(e_tried) : e_tried[k].mb # None} IN
       \E order \in GlobOrders(files) :
          LET best == SmallestIn(order, e_tried, 0) IN
          e_ret' = IF best = 0 THEN NoArtifact
                   ELSE [path |-> best, w |-> None, fps |-> None, mb |-> e_tried[best].mb]
    /\ e_pc' = "returned"
    /\ UNCHANGED <<e_fps_target, e_w, e_f, e_tried>>

----------------------------------------------------------------------------
(* Properties of encode_gif_budgeted *)

MetCap(k) == e_tried[k].mb # None /\ e_tried[k].mb <= GIF_MAX_MB

\* C13: the encodes go through the widths in descending order and, within a
\* width, through the frame rates descending from fps_target; a smaller
\* width is tried only once every frame rate of the current one has been;
\* the first pair within the cap is returned and nothing is encoded after it.
C13_SearchOrder ==
    /\ e_tried # <<>> => e_tried[1].w = Targets[1] /\ e_tried[1].fps = e_fps_target
    /\ \A k \in 2..Len(e_tried) :
          LET p == e_tried[k - 1]
              q == e_tried[k]
          IN /\ ~MetCap(k - 1)
             /\ \/ q.w = p.w /\ q.fps = p.fps - FpsStep
                \/ /\ q.w < p.w
                   /\ \A i \in 1..Len(Targets) : ~(q.w < Targets[i] /\ Targets[i] < p.w)
                   /\ p.fps - FpsStep < GIF_MIN_FPS
                   /\ q.fps = e_fps_target
    /\ (e_pc = "returned" /\ \E k \in 1..Len(e_tried) : MetCap(k))
          => /\ e_ret.path = Len(e_tried)
             /\ e_ret.w = e_tried[Len(e_tried)].w
             /\ e_ret.fps = e_tried[Len(e_tried)].fps

\* C13, the case: both frame rates of the first width missed the cap, and the
\* first encode at the second width met it and was returned.
C13_Witness ==
    /\ e_pc = "returned" /\ Len(e_tried) = 3
    /\ e_tried[2].w = Targets[1] /\ e_tried[2].fps = GIF_MIN_FPS
    /\ e_ret.w = Targets[2] /\ e_ret.fps = e_fps_target /\ e_ret.mb = GIF_MAX_MB

AllPairsTried ==
    Len(e_tried) = Len(Targets) * Len(FpsVals(e_fps_target, GIF_MIN_FPS))

\* C14: when every pair has been tried and none is within the cap,
\* encode_gif_budgeted returns the smallest of the results it produced,
\* with width, height and fps None.
C14_BestEffort ==
    (/\ e_pc = "returned" /\ AllPairsTried
     /\ \A k \in 1..Len(e_tried) : ~MetCap(k)
     /\ \E k \in 1..Len(e_tried) : e_tried[k].mb # None)
        => /\ e_ret.path # 0 /\ e_ret.w = None /\ e_ret.fps = None
           /\ e_ret.mb = e_tried[e_ret.path].mb
           /\ \A k \in 1..Len(e_tried) :
                 e_tried[k].mb # None => e_ret.mb <= e_tried[k].mb

\* C14, the case: over the cap everywhere, and the smallest result is not
\* the first one produced.
C14_Witness ==
    /\ e_pc = "returned" /\ AllPairsTried /\ Len(e_tried) >= 3
    /\ e_tried[1].mb = GIF_MAX_MB + 2
    /\ e_ret.path > 1 /\ e_ret.fps = None /\ e_ret.mb = GIF_MAX_MB + 1

----------------------------------------------------------------------------
(* scripts/revoa_import.py, lines 1729-1759 on a rec with aliexpress_candidates
   only: fetch_aliexpress_total_best, then enforce_rule on its best total *)

\* Supplier pages of the quotes: item prices $22, $28, $30 with free
\* shipping, sales counts 50, 150, 400.
QuoteTotals == {22 * Dollar, 28 * Dollar, 30 * Dollar}
QuoteSales == {50, 150, 400}
QuotePages == [html : {TRUE}, price : QuoteTotals, ship : {0}, sales : QuoteSales]
QuoteRetail == {None, 50 * Dollar}

\* A rec with three candidate urls, the default min_sales and top_n, and the
\* retail total fetch_amazon_price_prime_only gave.
QuoteInit ==
    /\ s_fn = "best"
    /\ s_pages \in [1..TOP_N_DEFAULT -> QuotePages]
    /\ s_list = [i \in 1..TOP_N_DEFAULT |-> [url |-> i, est |-> None]]
    /\ s_perm = <<>>
    /\ s_min_sales = MIN_SALES_DEFAULT
    /\ s_top_n = TOP_N_DEFAULT
    /\ s_i = 1 /\ s_results = <<>> /\ s_best = NoBest /\ s_checked = 0
    /\ s_visited = {} /\ s_pc = "loop"
    /\ s_ret = <<None, None>> /\ s_ret_perm = <<None, None>>
    /\ r_in \in [ae_total : {None}, amz_total : QuoteRetail,
                 min_spread : {DefaultMinSpread * Dollar}, soft_pass : BOOLEAN]
    /\ r_out = Pending

\* passed, reason, soft_flag = enforce_rule(ae_total, amz_total, soft_pass=soft_ok)
\* with the ae_total fetch_aliexpress_total_best returned.
Q_Decide ==
    /\ s_fn = "best" /\ s_pc = "returned"
    /\ r_out = Pending
    /\ r_in' = [r_in EXCEPT !.ae_total = s_ret[1]]
    /\ r_out' = enforce_rule(s_ret[1], r_in.amz_total, r_in.min_spread, r_in.soft_pass)
    /\ UNCHANGED res_vars

\* The scenario: retail $50, candidates at $30 / $22 / $28 with 50 / 150 / 400
\* sales, min_sales 100, and the decision taken.
ScenarioPage(total, sales) == [html |-> TRUE, price |-> total, ship |-> 0, sales |-> sales]
ScenarioDecided ==
    /\ s_fn = "best" /\ s_pc = "returned" /\ RuleCalled
    /\ s_pages = <<ScenarioPage(30 * Dollar, 50), ScenarioPage(22 * Dollar, 150),
                   ScenarioPage(28 * Dollar, 400)>>
    /\ s_min_sales = MIN_SALES_DEFAULT
    /\ r_in.amz_total = 50 * Dollar

\* C24 as claimed: in the scenario the resolver picks the $28 candidate, the
\* spread checked against the retail $50 is $22, and the decision is PASS
\* with a reason that has "PASS" and both totals.
C24_ScenarioPicks28 ==
    ScenarioDecided =>
        /\ s_ret[1] = 28 * Dollar
        /\ r_out.passed
        /\ r_out.reason = ReasonNums("PASS", 28 * Dollar, 50 * Dollar, 22 * Dollar)

\* C24 amended: in the scenario the resolver picks the minimal-cost eligible
\* candidate, which is the $22 one (150 sales; only the $30 one, with 50
\* sales, is excluded), the spread checked against the retail $50 is $28, and
\* the decision is PASS, without the soft flag, with a reason that has "PASS"
\* and both totals.
C24_ScenarioPicks22 ==
    ScenarioDecided =>
        /\ s_ret = <<22 * Dollar, 2>>
        /\ r_out.passed /\ ~r_out.soft_flag
        /\ r_out.reason = ReasonNums("PASS", 22 * Dollar, 50 * Dollar, 28 * Dollar)

\* C24, the case: the scenario, decided, with all three pages visited.
C24_Witness ==
    /\ ScenarioDecided
    /\ s_visited = 1..TOP_N_DEFAULT
    /\ r_in.ae_total = 22 * Dollar /\ r_out.passed

----------------------------------------------------------------------------
InitRule == RuleInit /\ ResolveIdle /\ MainIdle /\ ScrapeIdle /\ WindowsIdle /\ EncodeIdle
NextRule == Decide /\ UNCHANGED <<res_vars, main_vars, scrape_vars, win_vars, enc_vars>>
SpecRule == InitRule /\ [][NextRule]_vars

InitResolve == ResolveInit /\ RuleIdle /\ MainIdle /\ ScrapeIdle /\ WindowsIdle /\ EncodeIdle
NextResolve ==
    \/ BestIter /\ UNCHANGED <<rule_vars, main_vars, scrape_vars, win_vars, enc_vars>>
    \/ BestReturn /\ UNCHANGED <<rule_vars, main_vars, scrape_vars, win_vars, enc_vars>>
    \/ SearchIter /\ UNCHANGED <<rule_vars, main_vars, scrape_vars, win_vars, enc_vars>>
    \/ SearchReturn /\ UNCHANGED <<rule_vars, main_vars, scrape_vars, win_vars, enc_vars>>
SpecResolve == InitResolve /\ [][NextResolve]_vars

InitQuote == QuoteInit /\ MainIdle /\ ScrapeIdle /\ WindowsIdle /\ EncodeIdle
NextQuote ==
    \/ BestIter /\ UNCHANGED <<rule_vars, main_vars, scrape_vars, win_vars, enc_vars>>
    \/ BestReturn /\ UNCHANGED <<rule_vars, main_vars, scrape_vars, win_vars, enc_vars>>
    \/ Q_Decide /\ UNCHANGED <<main_vars, scrape_vars, win_vars, enc_vars>>
SpecQuote == InitQuote /\ [][NextQuote]_vars

InitMain == (ImportInit \/ HybridInit) /\ RuleIdle /\ ResolveIdle /\ ScrapeIdle /\ WindowsIdle /\ EncodeIdle
NextMain ==
    \/ M_Tick /\ UNCHANGED <<rule_vars, res_vars, scrape_vars, win_vars, enc_vars>>
    \/ M_LoopEnd /\ UNCHANGED <<rule_vars, res_vars, scrape_vars, win_vars, enc_vars>>
    \/ M_BudgetBreak /\ UNCHANGED <<rule_vars, res_vars, scrape_vars, win_vars, enc_vars>>
    \/ M_SkipSeen /\ UNCHANGED <<rule_vars, res_vars, scrape_vars, win_vars, enc_vars>>
    \/ M_SkipNoUrl /\ UNCHANGED <<rule_vars, res_vars, scrape_vars, win_vars, enc_vars>>
    \/ M_Price /\ UNCHANGED <<rule_vars, res_vars, scrape_vars, win_vars, enc_vars>>
    \/ M_CollectUpload /\ UNCHANGED <<rule_vars, res_vars, scrape_vars, win_vars, enc_vars>>
    \/ M_AutoGifs /\ UNCHANGED <<rule_vars, res_vars, scrape_vars, win_vars, enc_vars>>
    \/ M_GifSource /\ UNCHANGED <<rule_vars, res_vars, scrape_vars, win_vars, enc_vars>>
    \/ M_Encode /\ UNCHANGED <<rule_vars, res_vars, scrape_vars, win_vars, enc_vars>>
    \/ M_GifUpload /\ UNCHANGED <<rule_vars, res_vars, scrape_vars, win_vars, enc_vars>>
    \/ M_GifsDone /\ UNCHANGED <<rule_vars, res_vars, scrape_vars, win_vars, enc_vars>>
    \/ M_Build /\ UNCHANGED <<rule_vars, res_vars, scrape_vars, win_vars, enc_vars>>
    \/ M_Import /\ UNCHANGED <<rule_vars, res_vars, scrape_vars, win_vars, enc_vars>>
    \/ M_Summary /\ UNCHANGED <<rule_vars, res_vars, scrape_vars, win_vars, enc_vars>>
    \/ H_Prepare /\ UNCHANGED <<rule_vars, res_vars, scrape_vars, win_vars, enc_vars>>
    \/ H_Price /\ UNCHANGED <<rule_vars, res_vars, scrape_vars, win_vars, enc_vars>>
    \/ H_Upload /\ UNCHANGED <<rule_vars, res_vars, scrape_vars, win_vars, enc_vars>>
    \/ H_Import /\ UNCHANGED <<rule_vars, res_vars, scrape_vars, win_vars, enc_vars>>
SpecMain == InitMain /\ [][NextMain]_vars

InitScrape == ScrapeInit /\ RuleIdle /\ ResolveIdle /\ MainIdle /\ WindowsIdle /\ EncodeIdle
NextScrape ==
    \/ F_Attempt /\ UNCHANGED <<rule_vars, res_vars, main_vars, win_vars, enc_vars>>
    \/ F_Exhausted /\ UNCHANGED <<rule_vars, res_vars, main_vars, win_vars, enc_vars>>
    \/ F_Price /\ UNCHANGED <<rule_vars, res_vars, main_vars, win_vars, enc_vars>>
SpecScrape == InitScrape /\ [][NextScrape]_vars
\* The loop body always runs on: every request carries a timeout.
SpecScrapeFair == SpecScrape /\ WF_vars(NextScrape)

InitWindows == WindowsInit /\ RuleIdle /\ ResolveIdle /\ MainIdle /\ ScrapeIdle /\ EncodeIdle
NextWindows ==
    \/ W_Consider /\ UNCHANGED <<rule_vars, res_vars, main_vars, scrape_vars, enc_vars>>
    \/ W_Return /\ UNCHANGED <<rule_vars, res_vars, main_vars, scrape_vars, enc_vars>>
SpecWindows == InitWindows /\ [][NextWindows]_vars

InitEncode ==
    EncodeInit /\ RuleIdle /\ ResolveIdle /\ MainIdle /\ ScrapeIdle /\ WindowsIdle
NextEncode ==
    \/ E_Encode /\ UNCHANGED <<rule_vars, res_vars, main_vars, scrape_vars, win_vars>>
    \/ E_LastResort /\ UNCHANGED <<rule_vars, res_vars, main_vars, scrape_vars, win_vars>>
SpecEncode == InitEncode /\ [][NextEncode]_vars

\* The two pricing gates of revoa_import.py under every configuration.
InitGates ==
    /\ \E min_spread_usd \in MinSpreadConfigs :
          ImportInitWith(min_spread_usd) \/ HModeInitWith(min_spread_usd)
    /\ RuleIdle /\ ResolveIdle /\ ScrapeIdle /\ WindowsIdle /\ EncodeIdle
NextGates ==
    \/ M_Price /\ UNCHANGED <<rule_vars, res_vars, scrape_vars, win_vars, enc_vars>>
    \/ HM_Reel /\ UNCHANGED <<rule_vars, res_vars, scrape_vars, win_vars, enc_vars>>
SpecGates == InitGates /\ [][NextGates]_vars

InitHybridMode ==
    HModeInit /\ RuleIdle /\ ResolveIdle /\ ScrapeIdle /\ WindowsIdle /\ EncodeIdle
NextHybridMode ==
    \/ M_Tick /\ UNCHANGED <<rule_vars, res_vars, scrape_vars, win_vars, enc_vars>>
    \/ HM_Reel /\ UNCHANGED <<rule_vars, res_vars, scrape_vars, win_vars, enc_vars>>
    \/ HM_Assets /\ UNCHANGED <<rule_vars, res_vars, scrape_vars, win_vars, enc_vars>>
    \/ HM_LoopEnd /\ UNCHANGED <<rule_vars, res_vars, scrape_vars, win_vars, enc_vars>>
    \/ HM_End /\ UNCHANGED <<rule_vars, res_vars, scrape_vars, win_vars, enc_vars>>
    \/ HM_Discovery /\ UNCHANGED <<rule_vars, res_vars, scrape_vars, win_vars, enc_vars>>
    \/ M_Summary /\ UNCHANGED <<rule_vars, res_vars, scrape_vars, win_vars, enc_vars>>
SpecHybridMode == InitHybridMode /\ [][NextHybridMode]_vars

====
